---- MODULE Spec2Model ----
(***************************************************************************)
(* A model of the numeric kernel of signal-forge: waveform generation,     *)
(* the multi-fault pipeline, bit-error rate, digital modulation, the       *)
(* LTI / Bode engine, the formant / vowel classifier and the spectral      *)
(* analysis (FFT and STFT).                                                *)
(*                                                                         *)
(* The kernel is a set of pure functions over arrays.  Each specification  *)
(* below draws the arguments of a call in its initial state (args), and    *)
(* its actions apply the functions, leaving the value returned in ret.     *)
(*                                                                         *)
(* Numbers.  The code computes in double precision.  The model computes    *)
(* amplitudes in fixed point, in thousandths (1.0 is 1000), rounding a     *)
(* product to the nearest thousandth.  Times are exact rationals <<n, d>>. *)
(* Angles are kept in twelfths of a turn (30 degrees), the angle of a      *)
(* sample being rounded down to a twelfth, and sin / cos are read from a   *)
(* table of thousandths.  The uniform and gaussian random draws of the     *)
(* code are choices between two values each.                               *)
(***************************************************************************)
EXTENDS Integers, Sequences, FiniteSets, TLC

VARIABLES pc, args, ret

vars == <<pc, args, ret>>

(***************************************************************************)
(* Arithmetic helpers                                                      *)
(***************************************************************************)

\* NaN, the value of a dropped sample: an integer no amplitude of the model takes.
NaN == -1000000000

Abs(x) == IF x < 0 THEN -x ELSE x

Min(a, b) == IF a < b THEN a ELSE b

Max(a, b) == IF a > b THEN a ELSE b

Sign(x) == IF x > 0 THEN 1 ELSE IF x < 0 THEN -1 ELSE 0

\* floor(a / b) for any b # 0
Floor(a, b) == IF b > 0 THEN a \div b ELSE (-a) \div (-b)

\* a / b rounded to the nearest integer, halves up (Math.round), b > 0
RoundDiv(a, b) == (2 * a + b) \div (2 * b)

\* the product of two amplitudes in thousandths
Mul(a, b) == RoundDiv(a * b, 1000)

\* sin and cos of k twelfths of a turn, in thousandths
Sin12(k) == <<0, 500, 866, 1000, 866, 500, 0, -500, -866, -1000, -866, -500>>[(k % 12) + 1]

Cos12(k) == Sin12(k + 3)

\* the angle 2*pi*f*ti of a sample at time ti = <<n, d>>, in twelfths of a turn
Turn12(f, ti) == (12 * f * ti[1]) \div ti[2]

\* the two values a gaussian draw takes in the model: -1.0 and +1.0
Gauss(r) == IF r = 0 THEN -1000 ELSE 1000

\* the two values a uniform draw of [0, 1) takes in the model: 0.0 and 0.999
Uniform(r) == IF r = 0 THEN 0 ELSE 999

\* the random draws of one pass over n samples
Draws(n) == [1..n -> {0, 1}]

\* arr[i] of a 0-based array held as a sequence
At(arr, i) == arr[i + 1]

RECURSIVE SumSeq(_)
SumSeq(s) == IF s = <<>> THEN 0 ELSE Head(s) + SumSeq(Tail(s))

(***************************************************************************)
(* Waveform generator                                                      *)
(***************************************************************************)

\* the largest duration drawn, in quarters of a second
MaxQuarters == 5

SignalTypes == {"sine", "square", "triangle", "sawtooth", "impulse", "step", "noise", "harmonics", "unknown"}

\* duration is in milliseconds; phase in twelfths of a turn; amplitudes in thousandths
SignalParamsSet ==
    [amplitude : {1000}, frequency : {1, 2}, phase : {0, 3}, dcOffset : {0, 500},
     samplingRate : {1, 3, 4}, duration : {250 * q : q \in 0..MaxQuarters} \cup {999},
     harmonics : {<<>>, <<500>>}]

generateTimeVectorShifted(params) ==
    LET N == (params.samplingRate * params.duration) \div 1000
        dt == <<1, params.samplingRate>>
    IN  [j \in 1..N |-> <<j * dt[1], dt[2]>>]

generateTimeVector(params) ==
    LET N == (params.samplingRate * params.duration) \div 1000
        dt == <<1, params.samplingRate>>
    IN  [j \in 1..N |-> <<(j - 1) * dt[1], dt[2]>>]

generateHarmonicSignal(hp, t, dcOffset, j) ==
    LET term(i) ==
            LET freq == hp.fundamentalFreq * i
                phase == IF i <= Len(hp.phases) THEN hp.phases[i] ELSE 0
            IN  Mul(hp.amplitudes[i], Sin12(Turn12(freq, t[j]) + phase))
    IN  dcOffset + SumSeq([i \in 1..Len(hp.amplitudes) |-> term(i)])

\* the sample of index j (1-based) of generateSignal; r is the draw of the noise
generateSample(type, params, t, j, r) ==
    LET A == params.amplitude
        f == params.frequency
        phi == params.phase
        DC == params.dcOffset
        th == Turn12(f, t[j]) + phi
    IN  CASE type = "sine" -> Mul(A, Sin12(th)) + DC
          [] type = "square" -> A * Sign(Sin12(th)) + DC
          [] type = "triangle" ->
                RoundDiv(A * <<0, 1, 2, 3, 2, 1, 0, -1, -2, -3, -2, -1>>[(th % 12) + 1], 3) + DC
          [] type = "sawtooth" -> RoundDiv(2 * A * (th - 12 * ((th + 6) \div 12)), 12) + DC
          [] type = "impulse" -> (IF j = 1 THEN A ELSE 0) + DC
          [] type = "step" -> A + DC
          [] type = "noise" -> Mul(A, Gauss(r)) + DC
          [] type = "harmonics" ->
                generateHarmonicSignal(
                    [fundamentalFreq |-> f, amplitudes |-> <<A>> \o params.harmonics,
                     phases |-> <<phi>>], t, DC, j)
          [] OTHER -> 0

generateSignal(type, params, t, rnd) ==
    [j \in 1..Len(t) |-> generateSample(type, params, t, j, rnd[j])]

InitGen ==
    /\ pc = "gen_start"
    /\ args \in [type : SignalTypes, params : SignalParamsSet]
    /\ ret = [t |-> <<>>, signal |-> <<>>]

GenerateTimeVector ==
    /\ pc = "gen_start"
    /\ ret' = [ret EXCEPT !.t = generateTimeVector(args.params)]
    /\ pc' = "gen_timed"
    /\ UNCHANGED args

GenerateSignal ==
    /\ pc = "gen_timed"
    /\ \E rnd \in (IF args.type = "noise" THEN Draws(Len(ret.t)) ELSE {[j \in 1..Len(ret.t) |-> 0]}) :
          ret' = [ret EXCEPT !.signal = generateSignal(args.type, args.params, ret.t, rnd)]
    /\ pc' = "gen_done"
    /\ UNCHANGED args

NextGen == GenerateTimeVector \/ GenerateSignal

SpecGen == InitGen /\ [][NextGen]_vars

\* C1: generateTimeVector then generateSignal yield floor(Fs*T) samples, one
\* amplitude per timestamp, with t[0] = 0 and t[n] = n/Fs strictly increasing.
C1_SampleCount ==
    pc = "gen_done" =>
        LET Fs == args.params.samplingRate
            N == (Fs * args.params.duration) \div 1000
        IN  /\ Len(ret.t) = N
            /\ Len(ret.signal) = Len(ret.t)
            /\ \A j \in 1..Len(ret.t) : ret.t[j][1] * Fs = (j - 1) * ret.t[j][2]
            /\ \A j \in 1..(Len(ret.t) - 1) :
                  /\ ret.t[j][1] * ret.t[j + 1][2] < ret.t[j + 1][1] * ret.t[j][2]
                  /\ (ret.t[j + 1][1] - ret.t[j][1]) * Fs = ret.t[j][2]

C1_Witness ==
    /\ pc = "gen_done"
    /\ args.type = "unknown"
    /\ args.params.duration = 999
    /\ Len(ret.signal) = 3

(***************************************************************************)
(* Fault injection pipeline                                                *)
(***************************************************************************)

\* the longest signal drawn for the fault pipeline
MaxLen == 2

FAULT_TYPE_KEYS ==
    <<"ground_fault", "ground_loop", "floating_ground", "emi_rfi",
      "open_circuit", "short_circuit", "cable_attenuation", "impedance_mismatch",
      "noise_injection", "power_line", "signal_clipping", "signal_distortion",
      "sensor_offset", "sensor_drift", "sensor_saturation", "gain_error",
      "quantization_error", "aliasing", "timing_jitter", "sample_loss",
      "power_supply_ripple">>

\* the fault kinds that draw random numbers
RandomFaults == {"floating_ground", "open_circuit", "noise_injection", "timing_jitter", "sample_loss"}

\* x + d, where x may be a dropped sample
AddTo(x, d) == IF x = NaN \/ d = NaN THEN NaN ELSE x + d

\* Math.max(-limit, Math.min(limit, x))
Clamp(x, limit) == IF x = NaN THEN NaN ELSE Max(-limit, Min(limit, x))

\* x + M * sin(2*pi*f*t[i])
AddSine(x, M, f, ti) == AddTo(x, Mul(M, Sin12(Turn12(f, ti))))

floating_ground(signal, M, rnd) ==
    [j \in 1..Len(signal) |->
        AddTo(signal[j], SumSeq([i \in 1..j |-> RoundDiv(Gauss(rnd[i]) * M, 100000)]))]

impedance_mismatch(signal, M) ==
    LET delay == Max(1, M \div 100)
    IN  [j \in 1..Len(signal) |->
            LET prev == IF j - delay >= 1 THEN signal[j - delay] ELSE 0
            IN  IF prev = NaN THEN NaN ELSE AddTo(signal[j], RoundDiv(M * prev, 2000))]

quantization_error(signal, M) ==
    LET q == IF Abs(M) # 0 THEN Abs(M) ELSE 100
    IN  [j \in 1..Len(signal) |->
            IF signal[j] = NaN THEN NaN ELSE RoundDiv(signal[j], q) * q]

aliasingDecimated(signal, M) ==
    LET den == 1000000 - 800 * M
        skip == IF den = 0 THEN 0 ELSE Max(2, Floor(1000000, den))
    IN  IF skip = 0 THEN signal
        ELSE [j \in 1..((Len(signal) + skip - 1) \div skip) |-> signal[(j - 1) * skip + 1]]

aliasing(signal, M) ==
    LET den == 1000000 - 800 * M
        skip == IF den = 0 THEN 0 ELSE Max(2, Floor(1000000, den))
    IN  IF skip = 0 THEN signal
        ELSE [j \in 1..Len(signal) |-> At(signal, ((j - 1) \div skip) * skip)]

timing_jitter(signal, M, rnd) ==
    [j \in 1..Len(signal) |->
        LET jitter == Floor(Gauss(rnd[j]) * M * 5, 1000000)
            idx == Max(0, Min(Len(signal) - 1, (j - 1) + jitter))
        IN  At(signal, idx)]

\* applyFault: the faulted copy of signal; rnd[j] is the random draw of sample j
applyFault(signal, t, faultType, fp, rnd) ==
    LET M == fp.magnitude
        fFault == fp.frequency
        map(F(_)) == [j \in 1..Len(signal) |-> F(j)]
        ground(j) == AddTo(signal[j], M)
        periodic(j) == AddSine(signal[j], M, fFault, t[j])
        open(j) == IF Uniform(rnd[j]) * 1000 < M * 300 THEN 0 ELSE signal[j]
        short(j) == M
        cable(j) == IF signal[j] = NaN THEN NaN ELSE Mul(1000 - M, signal[j])
        noise(j) == AddTo(signal[j], Mul(M, Gauss(rnd[j])))
        line(j) == AddSine(signal[j], M, 50, t[j])
        clip(j) == Clamp(signal[j], M)
        distort(j) ==
            IF signal[j] = NaN THEN NaN
            ELSE signal[j] + Mul(M, Mul(signal[j], signal[j]))
        drift(j) == AddTo(signal[j], RoundDiv(M * t[j][1], t[j][2]))
        saturate(j) == Clamp(signal[j], IF Abs(M) # 0 THEN Abs(M) ELSE 1000)
        gain(j) == IF signal[j] = NaN THEN NaN ELSE Mul(1000 + M, signal[j])
        loss(j) == IF Uniform(rnd[j]) * 1000 < M * 200 THEN NaN ELSE signal[j]
    IN  CASE faultType = "none" -> signal
          [] faultType = "ground_fault" -> map(ground)
          [] faultType = "ground_loop" -> map(periodic)
          [] faultType = "floating_ground" -> floating_ground(signal, M, rnd)
          [] faultType = "emi_rfi" -> map(periodic)
          [] faultType = "open_circuit" -> map(open)
          [] faultType = "short_circuit" -> map(short)
          [] faultType = "cable_attenuation" -> map(cable)
          [] faultType = "impedance_mismatch" -> impedance_mismatch(signal, M)
          [] faultType = "noise_injection" -> map(noise)
          [] faultType = "power_line" -> map(line)
          [] faultType = "signal_clipping" -> map(clip)
          [] faultType = "signal_distortion" -> map(distort)
          [] faultType = "sensor_offset" -> map(ground)
          [] faultType = "sensor_drift" -> map(drift)
          [] faultType = "sensor_saturation" -> map(saturate)
          [] faultType = "gain_error" -> map(gain)
          [] faultType = "quantization_error" -> quantization_error(signal, M)
          [] faultType = "aliasing" -> aliasing(signal, M)
          [] faultType = "timing_jitter" -> timing_jitter(signal, M, rnd)
          [] faultType = "sample_loss" -> map(loss)
          [] faultType = "power_supply_ripple" -> map(periodic)
          [] OTHER -> signal

\* the condition under which applyMultiFault applies an entry of the config
faultAppliesIfEnabled(cfg) == cfg.enabled

faultApplies(cfg) == cfg.enabled /\ cfg.severity > 0

\* A MultiFaultConfig is held as the sequence of its entries in the insertion
\* order of its keys, which is the order Object.entries enumerates.
createDefaultMultiFaultConfig ==
    [k \in 1..Len(FAULT_TYPE_KEYS) |->
        [key |-> FAULT_TYPE_KEYS[k], enabled |-> FALSE, severity |-> 3, frequency |-> 50]]

\* applyMultiFault from entry k on; acc.result is the signal so far, acc.calls the
\* calls of applyFault made so far, in order; rnd[k] holds the draws of entry k
RECURSIVE applyEntries(_, _, _, _, _)
applyEntries(acc, t, config, rnd, k) ==
    IF k > Len(config) THEN acc
    ELSE LET cfg == config[k]
         IN  IF faultApplies(cfg)
             THEN LET magnitude == cfg.severity * 400
                      out == applyFault(acc.result, t, cfg.key,
                                        [magnitude |-> magnitude, frequency |-> cfg.frequency],
                                        IF k \in DOMAIN rnd THEN rnd[k]
                                        ELSE [j \in 1..Len(acc.result) |-> 0])
                  IN  applyEntries(
                          [result |-> out,
                           calls |-> Append(acc.calls,
                                        [type |-> cfg.key, magnitude |-> magnitude,
                                         input |-> acc.result, length |-> Len(out)])],
                          t, config, rnd, k + 1)
             ELSE applyEntries(acc, t, config, rnd, k + 1)

applyMultiFault(signal, t, config, rnd) ==
    applyEntries([result |-> signal, calls |-> <<>>], t, config, rnd, 1)

hasActiveFaults(config) ==
    \E k \in 1..Len(config) : config[k].enabled /\ config[k].severity > 0

\* the entries of a config that draw random numbers when applied
RandomEntries(config) ==
    {k \in 1..Len(config) : faultApplies(config[k]) /\ config[k].key \in RandomFaults}

\* FaultControls: toggleFault, setSeverity, setFrequency keep the keys in place
setFault(config, key, cfg) ==
    [k \in 1..Len(config) |->
        IF config[k].key = key
        THEN [key |-> key, enabled |-> cfg.enabled, severity |-> cfg.severity,
              frequency |-> cfg.frequency]
        ELSE config[k]]

\* the config with the keys of entries a and b inserted in the other order
swapKeys(config, a, b) ==
    [k \in 1..Len(config) |->
        IF k = a THEN config[b] ELSE IF k = b THEN config[a] ELSE config[k]]

\* the signals drawn: alternating samples beyond the clipping levels
TestSample(j) == IF j % 2 = 1 THEN 1500 - 100 * j ELSE -(300 + 200 * j)

FaultSignals == {[j \in 1..n |-> TestSample(j)] : n \in 0..MaxLen}

\* the time vector of a signal of n samples at 200 Hz
FaultTimes(n) == [j \in 1..n |-> <<j - 1, 200>>]

\* severity is the 0..5 of the severity slider
FaultConfigSet == [enabled : BOOLEAN, severity : 0..5, frequency : {50}]

\* the configs drawn: at most two kinds changed from the default, keys in the
\* order of FAULT_TYPE_KEYS or with those two keys inserted in the other order
FaultConfigs ==
    { swapKeys(setFault(setFault(createDefaultMultiFaultConfig,
                                 FAULT_TYPE_KEYS[a], ca), FAULT_TYPE_KEYS[b], cb),
               a, IF sw THEN b ELSE a) :
        <<a, b, ca, cb, sw>> \in
            { x \in (1..Len(FAULT_TYPE_KEYS)) \X (1..Len(FAULT_TYPE_KEYS))
                    \X FaultConfigSet \X FaultConfigSet
                    \X BOOLEAN : x[1] <= x[2] /\ (x[1] = x[2] => x[3] = x[4] /\ ~x[5]) } }

InitFault ==
    /\ pc = "mf_start"
    /\ \E signal \in FaultSignals, config \in FaultConfigs :
          args = [signal |-> signal, t |-> FaultTimes(Len(signal)), config |-> config]
    /\ ret = [result |-> <<>>, calls |-> <<>>]

ApplyMultiFault ==
    /\ pc = "mf_start"
    /\ \E rnd \in [RandomEntries(args.config) -> Draws(Len(args.signal))] :
          ret' = applyMultiFault(args.signal, args.t, args.config, rnd)
    /\ pc' = "mf_done"
    /\ UNCHANGED args

NextFault == ApplyMultiFault

SpecFault == InitFault /\ [][NextFault]_vars

\* the kinds of a config that are enabled with a severity above 0, in the order
\* of FAULT_TYPE_KEYS, each with the magnitude severity * 0.4
RECURSIVE EntryOf(_, _, _)
EntryOf(config, key, k) ==
    IF config[k].key = key THEN config[k] ELSE EntryOf(config, key, k + 1)

ExpectedCalls(config) ==
    LET active == SelectSeq(FAULT_TYPE_KEYS,
                      LAMBDA key : LET e == EntryOf(config, key, 1)
                                   IN  e.enabled /\ e.severity > 0)
    IN  [i \in 1..Len(active) |->
            [type |-> active[i], magnitude |-> EntryOf(config, active[i], 1).severity * 400]]

CallsMade == [i \in 1..Len(ret.calls) |->
                [type |-> ret.calls[i].type, magnitude |-> ret.calls[i].magnitude]]

\* C2: when every fault kind is disabled or has severity 0, applyMultiFault
\* returns the input signal element for element, and that is exactly the case
\* in which hasActiveFaults is false.
C2_NoActiveFaultIsNoOp ==
    pc = "mf_done" =>
        LET inactive == \A k \in 1..Len(args.config) :
                            ~args.config[k].enabled \/ args.config[k].severity = 0
        IN  /\ inactive => ret.result = args.signal
            /\ inactive <=> ~hasActiveFaults(args.config)

C2_Witness ==
    /\ pc = "mf_done"
    /\ ~hasActiveFaults(args.config)
    /\ \E k \in 1..Len(args.config) :
          /\ args.config[k].key = "short_circuit"
          /\ args.config[k].enabled
          /\ args.config[k].severity = 0
    /\ Len(args.signal) = 2
    /\ ret.result = args.signal

\* C3: the enabled faults are applied in the order of FAULT_TYPE_KEYS, each with
\* magnitude severity * 0.4 and on the output of the previous one, whatever the
\* order in which the keys of the config were inserted.
C3_FixedEnumerationOrder ==
    pc = "mf_done" =>
        /\ CallsMade = ExpectedCalls(args.config)
        /\ ret.calls # <<>> => ret.calls[1].input = args.signal
        /\ ret.calls = <<>> => ret.result = args.signal

\* C4: every call of applyFault returns as many samples as it was given, so the
\* result of applyMultiFault stays paired with the time vector, and the input
\* signal is left as it was.
C4_LengthPreserved ==
    pc = "mf_done" =>
        /\ \A i \in 1..Len(ret.calls) :
              /\ ret.calls[i].length = Len(ret.calls[i].input)
              /\ ret.calls[i].length = Len(args.t)
        /\ Len(ret.result) = Len(args.t)
        /\ Len(args.signal) = Len(args.t)

C4_Witness ==
    /\ pc = "mf_done"
    /\ Len(ret.calls) = 2
    /\ ret.calls[1].type = "aliasing"
    /\ ret.calls[2].type = "timing_jitter"
    /\ ret.calls[2].length = 2
    /\ ret.result # args.signal

(***************************************************************************)
(* Bit error rate                                                          *)
(***************************************************************************)

\* the longest bit sequence drawn
MaxBits == 3

BitSeqs(n) == UNION {[1..m -> {0, 1}] : m \in 0..n}

\* the loop of calculateBER: the errors among the first len positions
RECURSIVE countErrors(_, _, _)
countErrors(txBits, rxBits, len) ==
    IF len = 0 THEN 0
    ELSE countErrors(txBits, rxBits, len - 1)
         + (IF txBits[len] # rxBits[len] THEN 1 ELSE 0)

\* calculateBER with the loop stopping one position early
calculateBERShortLoop(txBits, rxBits) ==
    IF Len(txBits) = 0 THEN [num |-> 0, den |-> 1]
    ELSE LET len == Min(Len(txBits), Len(rxBits))
         IN  [num |-> countErrors(txBits, rxBits, Max(0, len - 1)), den |-> len]

\* calculateBER: the quotient errors / len is returned as the fraction
\* num / den; den = 0 stands for the NaN that 0 / 0 is
calculateBER(txBits, rxBits) ==
    IF Len(txBits) = 0 THEN [num |-> 0, den |-> 1]
    ELSE LET len == Min(Len(txBits), Len(rxBits))
         IN  [num |-> countErrors(txBits, rxBits, len), den |-> len]

InitBER ==
    /\ pc = "ber_start"
    /\ args \in [txBits : BitSeqs(MaxBits), rxBits : BitSeqs(MaxBits)]
    /\ ret = [num |-> 0, den |-> 1]

CalculateBER ==
    /\ pc = "ber_start"
    /\ ret' = calculateBER(args.txBits, args.rxBits)
    /\ pc' = "ber_done"
    /\ UNCHANGED args

NextBER == CalculateBER

SpecBER == InitBER /\ [][NextBER]_vars

\* the positions at which two bit sequences of equal length differ
Differing(a, b) == {i \in 1..Len(a) : a[i] # b[i]}

\* C5: for sequences of equal length N >= 1, calculateBER is the number of
\* differing positions over N: 0 for identical sequences, 1/N for one flipped bit.
C5_BitErrorRate ==
    (pc = "ber_done" /\ Len(args.txBits) = Len(args.rxBits) /\ Len(args.txBits) >= 1) =>
        LET N == Len(args.txBits)
            d == Cardinality(Differing(args.txBits, args.rxBits))
        IN  /\ ret.den # 0
            /\ ret.num * N = d * ret.den
            /\ args.txBits = args.rxBits => ret.num = 0
            /\ d = 1 => ret.num * N = ret.den

C5_Witness ==
    /\ pc = "ber_done"
    /\ Len(args.txBits) = 3
    /\ Len(args.rxBits) = 3
    /\ Differing(args.txBits, args.rxBits) = {3}
    /\ ret.num * 3 = ret.den

\* C29: calculateBER returns a number in [0, 1], never NaN, for every pair of
\* bit sequences, a received sequence that is empty or shorter than the
\* transmitted one included, and the bits transmitted but not received are
\* counted as errors.
C29_BerInUnitInterval ==
    pc = "ber_done" =>
        LET common == Min(Len(args.txBits), Len(args.rxBits))
            missing == Len(args.txBits) - common
            errors == countErrors(args.txBits, args.rxBits, common) + missing
        IN  /\ ret.den # 0
            /\ 0 <= ret.num /\ ret.num <= ret.den
            /\ missing > 0 => ret.num * Len(args.txBits) = errors * ret.den

(***************************************************************************)
(* Digital modulation and ASK demodulation                                 *)
(***************************************************************************)

\* the longest bit sequence drawn for the modulators
MaxModBits == 3

DIGITAL_MOD_TYPES == {"ASK", "FSK", "PSK", "QPSK"}

\* T is in milliseconds, Ac in thousandths
ModParamsSet ==
    [Ac : {1000}, Fc : {1, 3}, Fs : {4, 12}, T : {250, 1000},
     bitRate : {2, 4}, bits : BitSeqs(MaxModBits), F1 : {3}, F0 : {1}]

generateModTimeVector(Fs, T) ==
    LET N == (Fs * T) \div 1000
        dt == <<1, Fs>>
    IN  [j \in 1..N |-> <<(j - 1) * dt[1], dt[2]>>]

\* Math.floor(t * bitRate)
bitIndex(ti, bitRate) == (ti[1] * bitRate) \div ti[2]

\* getBit reading bits[idx], or the last bit past the end, with no wrap-around
getBitClamped(bits, idx) ==
    IF Len(bits) = 0 THEN 0 ELSE At(bits, Min(idx, Len(bits) - 1))

getBit(bits, idx) ==
    IF Len(bits) = 0 THEN 0 ELSE At(bits, idx % Len(bits))

modulateASK(t, p) ==
    [j \in 1..Len(t) |->
        LET bit == getBit(p.bits, bitIndex(t[j], p.bitRate))
        IN  Mul(p.Ac * bit, Sin12(Turn12(p.Fc, t[j])))]

modulateFSK(t, p) ==
    [j \in 1..Len(t) |->
        LET bit == getBit(p.bits, bitIndex(t[j], p.bitRate))
            freq == IF bit = 1 THEN p.F1 ELSE p.F0
        IN  Mul(p.Ac, Sin12(Turn12(freq, t[j])))]

modulatePSK(t, p) ==
    [j \in 1..Len(t) |->
        LET bit == getBit(p.bits, bitIndex(t[j], p.bitRate))
            phase == IF bit = 1 THEN 0 ELSE 6
        IN  Mul(p.Ac, Sin12(Turn12(p.Fc, t[j]) + phase))]

\* a Gray-coded QPSK map: 00 -> 0, 01 -> 90, 11 -> 180, 10 -> 270 degrees
qpskPhaseGray(b0, b1) == At(<<0, 3, 9, 6>>, b0 * 2 + b1)

\* PHASES[phaseIdx] of modulateQPSK, in twelfths of a turn
qpskPhase(b0, b1) == At(<<0, 3, 6, 9>>, b0 * 2 + b1)

\* the bit pair and the phase modulateQPSK uses for the sample at time ti
qpskSymbol(ti, p) ==
    LET symIdx == (ti[1] * p.bitRate) \div (2 * ti[2])
        bitIdx0 == symIdx * 2
        b0 == getBit(p.bits, bitIdx0)
        b1 == getBit(p.bits, bitIdx0 + 1)
    IN  [b0 |-> b0, b1 |-> b1, phase |-> qpskPhase(b0, b1)]

modulateQPSK(t, p) ==
    [j \in 1..Len(t) |->
        Mul(p.Ac, Sin12(Turn12(p.Fc, t[j]) + qpskSymbol(t[j], p).phase))]

\* modulate, for the digital schemes
modulate(type, t, p) ==
    CASE type = "ASK" -> modulateASK(t, p)
      [] type = "FSK" -> modulateFSK(t, p)
      [] type = "PSK" -> modulatePSK(t, p)
      [] type = "QPSK" -> modulateQPSK(t, p)
      [] OTHER -> [j \in 1..Len(t) |-> 0]

\* the window of the moving average of envelopeDetect
win == 10

\* Math.abs(x)
absOf(x) == IF x = NaN THEN NaN ELSE Abs(x)

\* a + b and a - b of doubles: NaN is absorbing
addDouble(a, b) == IF a = NaN \/ b = NaN THEN NaN ELSE a + b

subDouble(a, b) == IF a = NaN \/ b = NaN THEN NaN ELSE a - b

\* the loop of envelopeDetect from index i (0-based) on: currentSum gains
\* abs[i] and, from i = win on, loses abs[i - win]
RECURSIVE envelopeFrom(_, _, _, _)
envelopeFrom(abs, i, currentSum, result) ==
    IF i >= Len(abs) THEN result
    ELSE LET added == addDouble(currentSum, At(abs, i))
             sum == IF i >= win THEN subDouble(added, At(abs, i - win)) ELSE added
         IN  envelopeFrom(abs, i + 1, sum, Append(result, <<sum, Min(i + 1, win)>>))

\* envelopeDetect: result[i] = currentSum / min(i + 1, win), held as the
\* fraction <<currentSum, min(i + 1, win)>>
envelopeDetect(signal) ==
    envelopeFrom([j \in 1..Len(signal) |-> absOf(signal[j])], 0, 0, <<>>)

\* demodulateASK: v > threshold ? 1 : 0, threshold in thousandths; NaN > x is false
demodulateASK(signal, threshold) ==
    LET env == envelopeDetect(signal)
    IN  [j \in 1..Len(env) |->
            IF env[j][1] # NaN /\ env[j][1] > threshold * env[j][2] THEN 1 ELSE 0]

InitMod ==
    /\ pc = "mod_start"
    /\ args \in [type : DIGITAL_MOD_TYPES, p : ModParamsSet]
    /\ ret = [t |-> <<>>, signal |-> <<>>, symbols |-> <<>>, demod |-> <<>>]

\* the time vector and the modulated signal; symbols lists, for QPSK, the bit
\* pair and phase used for each sample
Modulate ==
    /\ pc = "mod_start"
    /\ LET t == generateModTimeVector(args.p.Fs, args.p.T)
       IN  ret' = [ret EXCEPT
                     !.t = t,
                     !.signal = modulate(args.type, t, args.p),
                     !.symbols = IF args.type = "QPSK"
                                 THEN [j \in 1..Len(t) |-> qpskSymbol(t[j], args.p)]
                                 ELSE <<>>]
    /\ pc' = "mod_done"
    /\ UNCHANGED args

\* demodulate, case 'ASK': demodulateASK with its default threshold 0.3
DemodulateASK ==
    /\ pc = "mod_done"
    /\ args.type = "ASK"
    /\ ret' = [ret EXCEPT !.demod = demodulateASK(ret.signal, 300)]
    /\ pc' = "demod_done"
    /\ UNCHANGED args

NextMod == Modulate \/ DemodulateASK

SpecMod == InitMod /\ [][NextMod]_vars

AllOnes(bits) == Len(bits) >= 1 /\ \A i \in 1..Len(bits) : bits[i] = 1

\* C6: ASK-modulating an all-ones bit sequence with carrier amplitude 1 and
\* demodulating with the default threshold recovers a 1 at every sample,
\* the first sample at t = 0 included.
C6_AskRoundTrip ==
    (pc = "demod_done" /\ AllOnes(args.p.bits) /\ args.p.Ac = 1000) =>
        \A j \in 1..Len(ret.demod) : ret.demod[j] = 1

\* the number of bits in which two bit pairs differ
BitDistance(x, y) == (IF x.b0 # y.b0 THEN 1 ELSE 0) + (IF x.b1 # y.b1 THEN 1 ELSE 0)

\* C7 as claimed: the bit pairs of any two QPSK phases 90 degrees apart
\* (270 and 0 included) differ in exactly one bit.
C7_GrayCoded ==
    pc = "mod_done" =>
        \A i, j \in 1..Len(ret.symbols) :
            (ret.symbols[j].phase - ret.symbols[i].phase) % 12 = 3
                => BitDistance(ret.symbols[i], ret.symbols[j]) = 1

\* C7 as amended: the bit pair b0 b1 is sent with phase (2*b0 + b1) * 90
\* degrees, the natural binary order 00 -> 0, 01 -> 90, 10 -> 180, 11 -> 270.
C7_NaturalBinary ==
    pc = "mod_done" =>
        \A j \in 1..Len(ret.symbols) :
            /\ ret.symbols[j].phase = 3 * (2 * ret.symbols[j].b0 + ret.symbols[j].b1)
            /\ ret.signal[j] =
                  Mul(args.p.Ac, Sin12(Turn12(args.p.Fc, ret.t[j]) + ret.symbols[j].phase))

C7_Witness ==
    /\ pc = "mod_done"
    /\ args.type = "QPSK"
    /\ \E i, j \in 1..Len(ret.symbols) :
          /\ ret.symbols[i].b0 = 0 /\ ret.symbols[i].b1 = 1 /\ ret.symbols[i].phase = 3
          /\ ret.symbols[j].b0 = 1 /\ ret.symbols[j].b1 = 0 /\ ret.symbols[j].phase = 6

\* C8: the modulators read bits[floor(t * bitRate) mod len(bits)] (QPSK: the
\* pair at 2 * floor(t * bitRate / 2) and the next index, mod len(bits)), so
\* doubling the bit sequence never changes the output, and an empty bit
\* sequence is read as all zeros.
C8_BitsModuloLength ==
    pc = "mod_done" =>
        LET p == args.p
            L == Len(p.bits)
            doubled == [p EXCEPT !.bits = p.bits \o p.bits]
            zeros == [p EXCEPT !.bits = <<0>>]
            bitAt(k) == IF L = 0 THEN 0 ELSE p.bits[(k % L) + 1]
        IN  /\ ret.signal = modulate(args.type, ret.t, doubled)
            /\ L = 0 => ret.signal = modulate(args.type, ret.t, zeros)
            /\ \A j \in 1..Len(ret.t) :
                  LET k == (ret.t[j][1] * p.bitRate) \div ret.t[j][2]
                      s == (ret.t[j][1] * p.bitRate) \div (2 * ret.t[j][2])
                      carrier == Turn12(p.Fc, ret.t[j])
                  IN  /\ args.type = "ASK" =>
                            ret.signal[j] = Mul(p.Ac * bitAt(k), Sin12(carrier))
                      /\ args.type = "PSK" =>
                            ret.signal[j] =
                                Mul(p.Ac, Sin12(carrier + (IF bitAt(k) = 1 THEN 0 ELSE 6)))
                      /\ args.type = "FSK" =>
                            ret.signal[j] =
                                Mul(p.Ac, Sin12(Turn12(IF bitAt(k) = 1 THEN p.F1 ELSE p.F0,
                                                       ret.t[j])))
                      /\ args.type = "QPSK" =>
                            /\ ret.symbols[j].b0 = bitAt(2 * s)
                            /\ ret.symbols[j].b1 = bitAt(2 * s + 1)

C8_Witness ==
    /\ pc = "mod_done"
    /\ args.type = "QPSK"
    /\ args.p.bits = <<1, 0, 1>>
    /\ Len(ret.t) = 12
    /\ args.p.bitRate = 4
    /\ ret.symbols[12] = [b0 |-> 1, b1 |-> 1, phase |-> 9]

(***************************************************************************)
(* LTI systems: discrete simulation and Bode plot                          *)
(***************************************************************************)

\* the longest input drawn for simulateSystem
MaxInput == 3

\* the largest number of points drawn for computeBodePlot
MaxPoints == 3

\* a / b rounded to the nearest integer, for any b # 0
RoundDivS(a, b) == IF b > 0 THEN RoundDiv(a, b) ELSE RoundDiv(-a, -b)

\* coefficients are integers, in descending powers of s
NumSet == {<<1>>, <<-1>>, <<1, 1>>, <<1, 0, 4>>, <<1, 3, 3, 1>>}

DenSet == {<<1>>, <<1, 1>>, <<2, 1>>, <<1, 0, 4>>, <<1, 3, 3, 1>>}

TransferFunctions == [num : NumSet, den : DenSet]

\* for (j = len - 1; j > 0; j--) d[j] = d[j - 1]; d[0] = v
Shift(d, v) == [j \in 1..Len(d) |-> IF j = 1 THEN v ELSE d[j - 1]]

\* sum over j in from..Len(c) - 1 of c[j] * d[j] (0-based)
Taps(c, d, from) == SumSeq([j \in 1..(Len(c) - from) |-> At(c, from + j - 1) * At(d, from + j - 1)])

\* the loop of simulateSystem from index i (0-based) on
RECURSIVE simulateFrom(_, _, _, _, _, _)
simulateFrom(tf, input, i, x, y, output) ==
    IF i >= Len(input) THEN output
    ELSE LET b == tf.num
             a == tf.den
             x1 == Shift(x, At(input, i))
             out == RoundDivS(Taps(b, x1, 0) - Taps(a, y, 1), At(a, 0))
             y1 == Shift(y, out)
         IN  simulateFrom(tf, input, i + 1, x1, y1, Append(output, out))

simulateSystem(tf, input) ==
    simulateFrom(tf, input, 0,
                 [j \in 1..Len(tf.num) |-> 0], [j \in 1..Len(tf.den) |-> 0], <<>>)

\* evalPoly of evaluateTF: Horner's method at s = <<re, im>>
RECURSIVE evalPoly(_, _, _, _)
evalPoly(coeffs, s, k, res) ==
    IF k > Len(coeffs) THEN res
    ELSE evalPoly(coeffs, s, k + 1,
                  <<res[1] * s[1] - res[2] * s[2] + coeffs[k], res[1] * s[2] + res[2] * s[1]>>)

\* evaluateTF with the test of denSq left out: at a zero of the denominator both
\* quotients are 0 / 0
evaluateTFUnguarded(tf, s) ==
    LET n == evalPoly(tf.num, s, 1, <<0, 0>>)
        d == evalPoly(tf.den, s, 1, <<0, 0>>)
        denSq == d[1] * d[1] + d[2] * d[2]
    IN  IF denSq = 0 THEN [inf |-> FALSE, nan |-> TRUE, re |-> 0, im |-> 0, denSq |-> 1]
        ELSE [inf |-> FALSE, nan |-> FALSE, re |-> n[1] * d[1] + n[2] * d[2],
              im |-> n[2] * d[1] - n[1] * d[2], denSq |-> denSq]

\* evaluateTF: H(s) as the fraction <<re, im, denSq>> of value (re + j im) / denSq,
\* or the sentinel { re: Infinity, im: 0 } (inf set, re giving the sign of the
\* infinite real part); nan is set when both parts are NaN
evaluateTF(tf, s) ==
    LET n == evalPoly(tf.num, s, 1, <<0, 0>>)
        d == evalPoly(tf.den, s, 1, <<0, 0>>)
        denSq == d[1] * d[1] + d[2] * d[2]
    IN  IF denSq = 0 THEN [inf |-> TRUE, nan |-> FALSE, re |-> 1, im |-> 0, denSq |-> 1]
        ELSE [inf |-> FALSE, nan |-> FALSE, re |-> n[1] * d[1] + n[2] * d[2],
              im |-> n[2] * d[1] - n[1] * d[2], denSq |-> denSq]

\* atan of y / x in whole degrees for 0 <= y <= x, x > 0, to within a degree
\* (the approximation atan(r) = r * (45 + 15.66 * (1 - r)) degrees; large
\* operands are scaled down first, to keep the products in range)
AtanDeg(y, x) ==
    LET k == (x \div 100000) + 1
        r == RoundDiv(1000 * (y \div k), Max(1, x \div k))
    IN  RoundDiv(r * (45000 + RoundDiv(1566 * (1000 - r), 100)), 1000000)

\* Math.atan2(y, x) * 180 / Math.PI in whole degrees, in -180..180, to within a degree
Atan2Deg(y, x) ==
    LET ay == Abs(y)
        ax == Abs(x)
        first == IF ax = 0 /\ ay = 0 THEN 0
                 ELSE IF ay <= ax THEN AtanDeg(ay, ax) ELSE 90 - AtanDeg(ax, ay)
        upper == IF x < 0 THEN 180 - first ELSE first
    IN  IF y < 0 THEN -upper ELSE upper

\* the unwrap of computeBodePlot with the upward loop left out
RECURSIVE unwrapDownOnly(_, _)
unwrapDownOnly(phaseDeg, lastPhase) ==
    IF phaseDeg - lastPhase > 180 THEN unwrapDownOnly(phaseDeg - 360, lastPhase)
    ELSE phaseDeg

\* while (phaseDeg - lastPhase > 180) phaseDeg -= 360
RECURSIVE unwrapDown(_, _)
unwrapDown(phaseDeg, lastPhase) ==
    IF phaseDeg - lastPhase > 180 THEN unwrapDown(phaseDeg - 360, lastPhase)
    ELSE phaseDeg

\* while (phaseDeg - lastPhase < -180) phaseDeg += 360
RECURSIVE unwrapUp(_, _)
unwrapUp(phaseDeg, lastPhase) ==
    IF phaseDeg - lastPhase < -180 THEN unwrapUp(phaseDeg + 360, lastPhase)
    ELSE phaseDeg

unwrap(phaseDeg, lastPhase) == unwrapUp(unwrapDown(phaseDeg, lastPhase), lastPhase)

\* r to the power i
RECURSIVE Pow(_, _)
Pow(r, i) == IF i = 0 THEN 1 ELSE r * Pow(r, i - 1)

\* floor(log2(n)), n >= 1
RECURSIVE Log2Floor(_)
Log2Floor(n) == IF n < 2 THEN 0 ELSE 1 + Log2Floor(n \div 2)

\* log2(n) in thousandths for n >= 1, linear between the powers of two
Log2Milli(n) ==
    LET e == Log2Floor(n)
        p == Pow(2, e)
    IN  IF e < 20 THEN 1000 * e + ((n - p) * 1000) \div p
        ELSE 1000 * e + (((n - p) \div 1024) * 1000) \div (p \div 1024)

\* magnitude = Math.sqrt(h.re * h.re + h.im * h.im) and
\* magDb = 20 * Math.log10(magnitude || 1e-12), in whole decibels to within one:
\* an infinite part gives Infinity, a magnitude of 0 or NaN gives -240
magnitudeDb(h) ==
    IF h.nan THEN [inf |-> FALSE, db |-> -240]
    ELSE IF h.inf THEN [inf |-> TRUE, db |-> 0]
    ELSE IF h.re = 0 /\ h.im = 0 THEN [inf |-> FALSE, db |-> -240]
    ELSE LET k == (Max(Abs(h.re), Abs(h.im)) \div 30000) + 1
             p == (Abs(h.re) \div k) * (Abs(h.re) \div k) + (Abs(h.im) \div k) * (Abs(h.im) \div k)
         IN  [inf |-> FALSE,
              db |-> RoundDiv(301 * (Log2Milli(p) + 2 * Log2Milli(k) - 2 * Log2Milli(h.denSq)),
                              100000)]

\* the loop of computeBodePlot from point i on.  The log-spaced grid is given by
\* its first angular frequency omega0 and the ratio of consecutive points; each
\* point keeps the raw phase next to the unwrapped one
RECURSIVE bodeFrom(_, _, _, _, _, _)
bodeFrom(tf, omega0, ratio, points, i, bode) ==
    IF i >= points THEN bode
    ELSE LET omega == omega0 * Pow(ratio, i)
             h == evaluateTF(tf, <<0, omega>>)
             raw == IF h.nan THEN NaN ELSE Atan2Deg(h.im, h.re)
             phaseDeg == IF Len(bode) > 0 /\ raw # NaN /\ bode[Len(bode)].phase # NaN
                         THEN unwrap(raw, bode[Len(bode)].phase) ELSE raw
         IN  bodeFrom(tf, omega0, ratio, points, i + 1,
                      Append(bode, [omega |-> omega, infinite |-> h.inf,
                                    magnitude |-> magnitudeDb(h),
                                    raw |-> raw, phase |-> phaseDeg]))

computeBodePlot(tf, omega0, ratio, points) == bodeFrom(tf, omega0, ratio, points, 0, <<>>)

InitLTI ==
    /\ pc = "lti_start"
    /\ args \in [tf : TransferFunctions,
                 input : UNION {[1..n -> {0, 1000}] : n \in 0..MaxInput},
                 omega0 : {1, 2}, ratio : {2}, points : 2..MaxPoints]
    /\ ret = [output |-> <<>>, bode |-> <<>>, s |-> <<0, 0>>, h |-> <<>>]

SimulateSystem ==
    /\ pc = "lti_start"
    /\ ret' = [ret EXCEPT !.output = simulateSystem(args.tf, args.input)]
    /\ pc' = "sim_done"
    /\ UNCHANGED args

ComputeBodePlot ==
    /\ pc = "lti_start"
    /\ ret' = [ret EXCEPT !.bode = computeBodePlot(args.tf, args.omega0, args.ratio, args.points)]
    /\ pc' = "bode_done"
    /\ UNCHANGED args

\* evaluateTF at a point of the imaginary axis or of the negative real axis
EvaluateTF ==
    /\ pc = "lti_start"
    /\ \E s \in {<<0, args.omega0>>, <<-args.omega0, 0>>} :
          ret' = [ret EXCEPT !.s = s, !.h = evaluateTF(args.tf, s)]
    /\ pc' = "tf_done"
    /\ UNCHANGED args

NextLTI == SimulateSystem \/ ComputeBodePlot \/ EvaluateTF

SpecLTI == InitLTI /\ [][NextLTI]_vars

\* the direct-form difference equation: out[i] = (sum_j num[j] * input[i - j]
\* - sum_{j >= 1} den[j] * out[i - j]) / den[0], terms of negative index being 0
RECURSIVE DirectForm(_, _, _)
DirectForm(tf, input, out) ==
    IF Len(out) >= Len(input) THEN out
    ELSE LET i == Len(out)
             ff == SumSeq([j \in 1..Len(tf.num) |->
                            IF i - (j - 1) >= 0 THEN tf.num[j] * At(input, i - (j - 1)) ELSE 0])
             fb == SumSeq([j \in 1..(Len(tf.den) - 1) |->
                            IF i - j >= 0 THEN At(tf.den, j) * At(out, i - j) ELSE 0])
         IN  DirectForm(tf, input, Append(out, RoundDivS(ff - fb, At(tf.den, 0))))

\* C9: simulateSystem computes the direct-form difference equation, den[1]
\* multiplying the output just before the current one.
C9_DirectForm ==
    pc = "sim_done" => ret.output = DirectForm(args.tf, args.input, <<>>)

\* C10: each emitted phase differs from the previous emitted phase by at most
\* 180 degrees and from the raw atan2 phase by a multiple of 360 degrees.
C10_PhaseUnwrapped ==
    pc = "bode_done" =>
        /\ Len(ret.bode) = args.points
        /\ \A i \in 1..Len(ret.bode) : (ret.bode[i].phase - ret.bode[i].raw) % 360 = 0
        /\ \A i \in 2..Len(ret.bode) : Abs(ret.bode[i].phase - ret.bode[i - 1].phase) <= 180

C10_Witness ==
    /\ pc = "bode_done"
    /\ \E i \in 2..Len(ret.bode) :
          /\ ret.bode[i].phase = ret.bode[i].raw + 360
          /\ ret.bode[i].raw - ret.bode[i - 1].phase < -180
    /\ \E i \in 2..Len(ret.bode) : ret.bode[i].phase # ret.bode[i].raw

\* C11: where the denominator polynomial is exactly zero, evaluateTF returns
\* the sentinel with infinite real part and zero imaginary part and no NaN,
\* whatever the numerator evaluates to (zero included), and computeBodePlot
\* reports an infinite magnitude for that point.
C11_ZeroDenominatorSentinel ==
    /\ pc = "tf_done" =>
          (evalPoly(args.tf.den, ret.s, 1, <<0, 0>>) = <<0, 0>> =>
              /\ ret.h.inf /\ ~ret.h.nan
              /\ ret.h.re > 0 /\ ret.h.im = 0)
    /\ pc = "bode_done" =>
          \A i \in 1..Len(ret.bode) :
              evalPoly(args.tf.den, <<0, ret.bode[i].omega>>, 1, <<0, 0>>) = <<0, 0>> =>
                  /\ ret.bode[i].magnitude.inf
                  /\ ret.bode[i].phase # NaN

C11_Witness ==
    /\ pc = "bode_done"
    /\ \E i \in 1..Len(ret.bode) :
          /\ evalPoly(args.tf.den, <<0, ret.bode[i].omega>>, 1, <<0, 0>>) = <<0, 0>>
          /\ evalPoly(args.tf.num, <<0, ret.bode[i].omega>>, 1, <<0, 0>>) = <<0, 0>>
          /\ ret.bode[i].magnitude.inf
    /\ \E i \in 1..Len(ret.bode) : ~ret.bode[i].magnitude.inf

(***************************************************************************)
(* Formant / vowel classifier.  Frequencies are in hundredths of a hertz,  *)
(* normalized distances and confidences in thousandths.  The detector      *)
(* keeps its window size in args and its history in ret; args.frames       *)
(* records the formants passed to update() since the last clear().         *)
(***************************************************************************)

\* the largest window size drawn for a VowelDetector
MaxWindow == 3

\* the largest number of update() calls between two clear() calls
MaxFrames == 4

null == "null"

\* VOWEL_RANGES in insertion order, the ranges in hertz
VOWEL_RANGES ==
    << [vowel |-> "A", f1 |-> <<700, 900>>, f2 |-> <<1100, 1300>>],
       [vowel |-> "E", f1 |-> <<400, 600>>, f2 |-> <<1700, 2300>>],
       [vowel |-> "I", f1 |-> <<200, 400>>, f2 |-> <<2000, 3000>>],
       [vowel |-> "O", f1 |-> <<400, 600>>, f2 |-> <<800, 1200>>],
       [vowel |-> "U", f1 |-> <<200, 400>>, f2 |-> <<600, 1000>>] >>

\* floor(sqrt(n)) by bisection
RECURSIVE SqrtBetween(_, _, _)
SqrtBetween(n, lo, hi) ==
    IF lo >= hi THEN lo
    ELSE LET mid == (lo + hi + 1) \div 2
         IN  IF mid * mid <= n THEN SqrtBetween(n, mid, hi) ELSE SqrtBetween(n, lo, mid - 1)

Sqrt(n) == SqrtBetween(n, 0, 46340)

distanceToVowel(f1, f2, vowelRange) ==
    LET f1Center == (vowelRange.f1[1] + vowelRange.f1[2]) * 50
        f2Center == (vowelRange.f2[1] + vowelRange.f2[2]) * 50
        f1Width == vowelRange.f1[2] - vowelRange.f1[1]
        f2Width == vowelRange.f2[2] - vowelRange.f2[1]
        f1Diff == RoundDiv((f1 - f1Center) * 10, IF f1Width = 0 THEN 100 ELSE f1Width)
        f2Diff == RoundDiv((f2 - f2Center) * 10, IF f2Width = 0 THEN 100 ELSE f2Width)
    IN  Sqrt(f1Diff * f1Diff + f2Diff * f2Diff)

\* the silence test with "and" in place of "or"
isSilenceBoth(f1, f2) == f1 < 5000 /\ f2 < 10000

\* f1 < 50 || f2 < 100
isSilence(f1, f2) == f1 < 5000 \/ f2 < 10000

\* distances.reduce((a, b) => (a.distance < b.distance ? a : b)) from element k on
RECURSIVE closestFrom(_, _, _)
closestFrom(distances, k, a) ==
    IF k > Len(distances) THEN a
    ELSE closestFrom(distances, k + 1,
                     IF a.distance < distances[k].distance THEN a ELSE distances[k])

\* the confidence without the lower clamp
confidenceUnclamped(distance) == 1000 - RoundDiv(distance, 2)

\* Math.max(0, 1 - closest.distance / 2)
confidenceOf(distance) == Max(0, 1000 - RoundDiv(distance, 2))

classifyVowel(formants) ==
    IF isSilence(formants.f1, formants.f2)
    THEN [vowel |-> null, confidence |-> 0, formants |-> formants]
    ELSE LET distances == [k \in 1..Len(VOWEL_RANGES) |->
                              [vowel |-> VOWEL_RANGES[k].vowel,
                               distance |-> distanceToVowel(formants.f1, formants.f2,
                                                            VOWEL_RANGES[k])]]
             closest == closestFrom(distances, 2, distances[1])
         IN  [vowel |-> closest.vowel, confidence |-> confidenceOf(closest.distance),
              formants |-> formants]

\* the eviction dropping the newest result instead of the oldest
evictNewest(history, windowSize) ==
    IF Len(history) > windowSize THEN SubSeq(history, 1, Len(history) - 1) ELSE history

\* if (this.history.length > this.windowSize) this.history.shift()
evict(history, windowSize) ==
    IF Len(history) > windowSize THEN Tail(history) ELSE history

\* vowelCounts: the non-null labels of history[k..] added to counts, a label
\* entering the object at its first occurrence
RECURSIVE vowelCountsFrom(_, _, _)
vowelCountsFrom(history, k, counts) ==
    IF k > Len(history) THEN counts
    ELSE LET v == history[k].vowel
             hit == {j \in 1..Len(counts) : counts[j].vowel = v}
         IN  vowelCountsFrom(history, k + 1,
                 IF v = null THEN counts
                 ELSE IF hit = {} THEN Append(counts, [vowel |-> v, count |-> 1])
                 ELSE [j \in 1..Len(counts) |->
                          IF j \in hit THEN [counts[j] EXCEPT !.count = @ + 1]
                          ELSE counts[j]])

\* the vote taking the first label of vowelCounts whatever its count
bestFirst(counts, k, best) ==
    IF Len(counts) = 0 THEN best ELSE counts[1]

\* the vote with count >= bestCount: of the labels sharing the highest count the
\* last one listed wins
RECURSIVE bestLast(_, _, _)
bestLast(counts, k, best) ==
    IF k > Len(counts) THEN best
    ELSE bestLast(counts, k + 1, IF counts[k].count >= best.count THEN counts[k] ELSE best)

\* for (const [vowel, count] of Object.entries(vowelCounts)) if (count > bestCount) ...
RECURSIVE bestFrom(_, _, _)
bestFrom(counts, k, best) ==
    IF k > Len(counts) THEN best
    ELSE bestFrom(counts, k + 1, IF counts[k].count > best.count THEN counts[k] ELSE best)

\* VowelDetector.update: the new history and the value returned
update(detector, formants) ==
    LET current == classifyVowel(formants)
        history == evict(Append(detector.history, current), detector.windowSize)
        avgConfidence ==
            IF Len(history) = 0 THEN NaN
            ELSE RoundDiv(SumSeq([i \in 1..Len(history) |-> history[i].confidence]),
                          Len(history))
        best == bestFrom(vowelCountsFrom(history, 1, <<>>), 1, [vowel |-> null, count |-> 0])
    IN  [history |-> history,
         result |-> [vowel |-> best.vowel, confidence |-> avgConfidence,
                     formants |-> current.formants]]

\* a clear() that leaves the history as it is
clearNothing(detector) == detector

\* VowelDetector.clear: this.history = []
clear(detector) == [detector EXCEPT !.history = <<>>]

\* the formants fed to update(): silence, the centroids of A, I and U, the
\* point at equal distance from E and O, and a point far from every vowel
FormantSet ==
    { [f1 |-> 0, f2 |-> 0], [f1 |-> 80000, f2 |-> 120000], [f1 |-> 50000, f2 |-> 140000],
      [f1 |-> 30000, f2 |-> 250000], [f1 |-> 30000, f2 |-> 80000],
      [f1 |-> 400000, f2 |-> 500000] }

\* the formants given to classifyVowel alone
FormantGrid ==
    [f1 : {0, 4999, 5000, 20000, 30000, 50000, 80000, 100000, 400000},
     f2 : {0, 9999, 10000, 60000, 80000, 100000, 120000, 140000, 200000, 250000, 500000}]

noResult == [vowel |-> null, confidence |-> 0, formants |-> [f1 |-> 0, f2 |-> 0]]

InitVowel ==
    /\ pc = "vd_ready"
    /\ args \in [windowSize : 1..MaxWindow, frames : {<<>>}, formants : {[f1 |-> 0, f2 |-> 0]},
                 cleared : {FALSE}]
    /\ ret = [history |-> <<>>, result |-> noResult, current |-> noResult]

Update ==
    /\ pc = "vd_ready"
    /\ Len(args.frames) < MaxFrames
    /\ \E f \in FormantSet :
          LET u == update([history |-> ret.history, windowSize |-> args.windowSize], f)
          IN  /\ ret' = [ret EXCEPT !.history = u.history, !.result = u.result]
              /\ args' = [args EXCEPT !.frames = Append(@, f)]
    /\ UNCHANGED pc

\* cleared records that a clear() has discarded a history that was not empty
Clear ==
    /\ pc = "vd_ready"
    /\ ret' = [ret EXCEPT
                  !.history = clear([history |-> ret.history,
                                     windowSize |-> args.windowSize]).history]
    /\ args' = [args EXCEPT !.frames = <<>>, !.cleared = @ \/ Len(ret.history) > 0]
    /\ UNCHANGED pc

ClassifyVowel ==
    /\ pc = "vd_ready"
    /\ args.frames = <<>>
    /\ \E f \in FormantGrid :
          /\ ret' = [ret EXCEPT !.current = classifyVowel(f)]
          /\ args' = [args EXCEPT !.formants = f]
    /\ pc' = "classified"

NextVowel == Update \/ Clear \/ ClassifyVowel

SpecVowel == InitVowel /\ [][NextVowel]_vars

\* the classifications of the last min(k, W) update() calls since the last clear()
RECURSIVE WindowFrom(_, _)
WindowFrom(frames, n) ==
    IF n = 0 THEN <<>>
    ELSE Append(WindowFrom(SubSeq(frames, 1, Len(frames) - 1), n - 1),
                classifyVowel(frames[Len(frames)]))

Window == WindowFrom(args.frames, Min(Len(args.frames), args.windowSize))

\* C12: the history holds at most W results, and they are the classifications
\* of the last min(k, W) update() calls since the most recent clear(), in
\* arrival order (the oldest is the one evicted).
C12_HistoryWindow ==
    pc = "vd_ready" =>
        /\ Len(ret.history) <= args.windowSize
        /\ Len(ret.history) = Min(Len(args.frames), args.windowSize)
        /\ ret.history = Window

C12_Witness ==
    /\ pc = "vd_ready"
    /\ Len(args.frames) = args.windowSize + 2
    /\ args.windowSize = 2
    /\ ret.history = <<classifyVowel(args.frames[3]), classifyVowel(args.frames[4])>>
    /\ ret.history[1] # ret.history[2]
    /\ classifyVowel(args.frames[1]) # ret.history[1]
    /\ classifyVowel(args.frames[2]) # ret.history[1]

\* the number of classifications of the window carrying label l
Occurrences(l) == Cardinality({i \in 1..Len(Window) : Window[i].vowel = l})

Vowels == {VOWEL_RANGES[k].vowel : k \in 1..Len(VOWEL_RANGES)}

\* C13 (as stated): update returns a label whose number of occurrences among
\* the classifications of the window is maximal, null counting as a label,
\* with the mean confidence of the window and the formants of the latest frame.
C13_MajorityOfAll ==
    (pc = "vd_ready" /\ Len(args.frames) > 0) =>
        LET w == Window
            occurrences(l) == Cardinality({i \in 1..Len(w) : w[i].vowel = l})
        IN
        /\ \A l \in Vowels \cup {null} : occurrences(ret.result.vowel) >= occurrences(l)
        /\ ret.result.confidence =
              RoundDiv(SumSeq([i \in 1..Len(w) |-> w[i].confidence]), Len(w))
        /\ ret.result.formants = args.frames[Len(args.frames)]

\* C13 (amended): the vote is taken among the non-null classifications only:
\* update returns null when every classification of the window is null, and
\* otherwise a vowel whose number of occurrences is maximal among the vowels;
\* the confidence is the mean over all classifications of the window, silent
\* ones included, and the formants are those of the latest frame.
C13_MajorityOfVowels ==
    (pc = "vd_ready" /\ Len(args.frames) > 0) =>
        LET w == Window
            occurrences(l) == Cardinality({i \in 1..Len(w) : w[i].vowel = l})
        IN
        /\ IF \A i \in 1..Len(w) : w[i].vowel = null
           THEN ret.result.vowel = null
           ELSE /\ ret.result.vowel \in Vowels
                /\ \A l \in Vowels : occurrences(ret.result.vowel) >= occurrences(l)
        /\ ret.result.confidence =
              RoundDiv(SumSeq([i \in 1..Len(w) |-> w[i].confidence]), Len(w))
        /\ ret.result.formants = args.frames[Len(args.frames)]

C13_Witness ==
    /\ pc = "vd_ready"
    /\ Len(Window) = 3
    /\ Occurrences(null) = 2
    /\ ret.result.vowel = "A"
    /\ ret.result.confidence = 333
    /\ ret.result.formants = [f1 |-> 0, f2 |-> 0]

\* C26: update returns null exactly when every classification of the window
\* is null; otherwise it returns a vowel with the highest count among the
\* non-null classifications, and of the vowels sharing that count the one that
\* entered the window first, however many null classifications there are.
C26_SilenceNeverWins ==
    (pc = "vd_ready" /\ Len(args.frames) > 0) =>
        LET v == ret.result.vowel
            w == Window
            labels == [i \in 1..Len(w) |-> w[i].vowel]
            count(l) == Cardinality({i \in 1..Len(labels) : labels[i] = l})
            first(l) == CHOOSE i \in 1..Len(labels) :
                           labels[i] = l /\ \A j \in 1..(i - 1) : labels[j] # l
        IN  /\ v = null <=> \A i \in 1..Len(labels) : labels[i] = null
            /\ v # null =>
                  /\ v \in Vowels
                  /\ count(v) >= 1
                  /\ \A l \in Vowels \ {v} :
                        \/ count(l) < count(v)
                        \/ count(l) = count(v) /\ first(v) < first(l)

C26_Witness ==
    /\ pc = "vd_ready"
    /\ args.windowSize = 3
    /\ Len(args.frames) = 4
    /\ Window[1].vowel = null
    /\ Window[2].vowel = "U"
    /\ Window[3].vowel = "A"
    /\ ret.result.vowel = "U"

\* a freshly constructed VowelDetector after the update() calls of frames
RECURSIVE FreshAfter(_, _)
FreshAfter(windowSize, frames) ==
    IF frames = <<>> THEN [history |-> <<>>, windowSize |-> windowSize]
    ELSE LET before == FreshAfter(windowSize, SubSeq(frames, 1, Len(frames) - 1))
         IN  [before EXCEPT !.history = update(before, frames[Len(frames)]).history]

\* C27: after update() calls followed by clear(), the next update(f) returns
\* exactly classifyVowel(f), and every result after the clear() is the one a
\* freshly constructed detector returns for the frames fed since the clear().
C27_ClearResets ==
    (pc = "vd_ready" /\ args.cleared /\ Len(args.frames) > 0) =>
        LET k == Len(args.frames)
            fresh == FreshAfter(args.windowSize, SubSeq(args.frames, 1, k - 1))
        IN  /\ k = 1 => ret.result = classifyVowel(args.frames[1])
            /\ ret.result = update(fresh, args.frames[k]).result
            /\ ret.history = update(fresh, args.frames[k]).history

C27_Witness ==
    /\ pc = "vd_ready"
    /\ args.cleared
    /\ args.windowSize = 3
    /\ Len(args.frames) = 1
    /\ ret.history = <<classifyVowel(args.frames[1])>>
    /\ ret.result = [vowel |-> "I", confidence |-> 1000,
                     formants |-> [f1 |-> 30000, f2 |-> 250000]]

\* C14: every VowelResult has a confidence in [0, 1] and a label among A, E,
\* I, O, U and null: the result of classifyVowel on any formant pair, and the
\* result of update after any sequence of update() and clear() calls.
C14_ConfidenceRange ==
    LET InRange(r) == /\ r.confidence >= 0 /\ r.confidence <= 1000
                      /\ r.vowel \in {"A", "E", "I", "O", "U", null}
    IN  /\ pc = "classified" => InRange(ret.current)
        /\ (pc = "vd_ready" /\ Len(args.frames) > 0) =>
              /\ InRange(ret.result)
              /\ \A i \in 1..Len(ret.history) : InRange(ret.history[i])

C14_Witness ==
    /\ pc = "vd_ready"
    /\ Len(ret.history) = 3
    /\ \E i \in 1..3 : ret.history[i].vowel # null /\ ret.history[i].confidence = 0
    /\ \E i \in 1..3 : ret.history[i].confidence = 1000
    /\ ret.result.confidence > 0 /\ ret.result.confidence < 1000

\* C15: classifyVowel returns vowel = null and confidence 0 when F1 < 50 Hz or
\* F2 < 100 Hz, and otherwise a reference vowel at the smallest normalized
\* distance from the input; the formants are returned unchanged.
C15_SilenceOrNearest ==
    pc = "classified" =>
        LET f == args.formants
            r == ret.current
        IN  /\ r.formants = f
            /\ IF f.f1 < 5000 \/ f.f2 < 10000
               THEN r.vowel = null /\ r.confidence = 0
               ELSE \E k \in 1..Len(VOWEL_RANGES) :
                       /\ r.vowel = VOWEL_RANGES[k].vowel
                       /\ \A j \in 1..Len(VOWEL_RANGES) :
                             distanceToVowel(f.f1, f.f2, VOWEL_RANGES[k])
                                 <= distanceToVowel(f.f1, f.f2, VOWEL_RANGES[j])

C15_Witness ==
    /\ pc = "classified"
    /\ args.formants.f1 >= 5000
    /\ args.formants.f2 < 10000 /\ args.formants.f2 > 0
    /\ ret.current.vowel = null

(***************************************************************************)
(* Formant extraction from a magnitude spectrum                            *)
(***************************************************************************)

\* the value of find() and of ?. when nothing is found: no index is negative
undefined == -1

\* findPeaks: the indices (0-based) i in minDistance .. length - minDistance - 1
\* that no sample within minDistance of i exceeds
findPeaks(spectrum, minDistance) ==
    LET isPeak(i) == \A j \in (i - minDistance)..(i + minDistance) :
                         j = i \/ ~(At(spectrum, j) > At(spectrum, i))
    IN  SelectSeq([k \in 1..Max(0, Len(spectrum) - 2 * minDistance) |-> k - 1 + minDistance],
                  isPeak)

\* p inserted into a sequence sorted by descending magnitude, after its equals
RECURSIVE insertByMag(_, _)
insertByMag(sorted, p) ==
    IF sorted = <<>> THEN <<p>>
    ELSE IF Head(sorted).mag >= p.mag THEN <<Head(sorted)>> \o insertByMag(Tail(sorted), p)
    ELSE <<p>> \o sorted

\* peaks.map(idx => ({ idx, mag })).sort((a, b) => b.mag - a.mag), a stable sort
RECURSIVE sortedPeaksFrom(_, _, _, _)
sortedPeaksFrom(peaks, magnitudes, k, sorted) ==
    IF k > Len(peaks) THEN sorted
    ELSE sortedPeaksFrom(peaks, magnitudes, k + 1,
                         insertByMag(sorted, [idx |-> peaks[k], mag |-> At(magnitudes, peaks[k])]))

\* F1 taken as the strongest peak, whatever its index
pickF1Strongest(sortedPeaks, f1MaxIdx) == sortedPeaks[1].idx

\* sortedPeaks.find(p => p.idx < f1MaxIdx)?.idx ?? sortedPeaks[0].idx
pickF1(sortedPeaks, f1MaxIdx) ==
    LET low(p) == p.idx < f1MaxIdx
        hits == SelectSeq(sortedPeaks, low)
    IN  IF hits # <<>> THEN hits[1].idx ELSE sortedPeaks[1].idx

\* sortedPeaks.find(p => p.idx > f1Idx && p.idx < f2MaxIdx)?.idx ??
\* sortedPeaks.find(p => p.idx > f1Idx)?.idx ?? sortedPeaks[1]?.idx ?? f1Idx + 50
pickF2(sortedPeaks, f1Idx, f2MaxIdx) ==
    LET inBand(p) == p.idx > f1Idx /\ p.idx < f2MaxIdx
        above(p) == p.idx > f1Idx
        first == SelectSeq(sortedPeaks, inBand)
        second == SelectSeq(sortedPeaks, above)
        third == IF Len(sortedPeaks) >= 2 THEN sortedPeaks[2].idx ELSE undefined
    IN  IF first # <<>> THEN first[1].idx
        ELSE IF second # <<>> THEN second[1].idx
        ELSE IF third # undefined THEN third
        ELSE f1Idx + 50

\* the two indices left as they were picked
noSwap(f1Idx, f2Idx) == <<f1Idx, f2Idx>>

\* if (f1Idx > f2Idx) [f1Idx, f2Idx] = [f2Idx, f1Idx]
swapIfDescending(f1Idx, f2Idx) ==
    IF f1Idx > f2Idx THEN <<f2Idx, f1Idx>> ELSE <<f1Idx, f2Idx>>

\* magnitudes.slice(0, f2MaxIdx)
searchBand(magnitudes, sampleRate) ==
    LET f2MaxIdx == Floor(6000 * Len(magnitudes), sampleRate)
    IN  SubSeq(magnitudes, 1, Min(Len(magnitudes), Max(0, f2MaxIdx)))

extractFormants(magnitudes, sampleRate) ==
    LET f1MaxIdx == Floor(1800 * Len(magnitudes), sampleRate)
        f2MaxIdx == Floor(6000 * Len(magnitudes), sampleRate)
        peaks == findPeaks(searchBand(magnitudes, sampleRate), 3)
        sortedPeaks == sortedPeaksFrom(peaks, magnitudes, 1, <<>>)
        f1Idx == pickF1(sortedPeaks, f1MaxIdx)
        f2Idx == pickF2(sortedPeaks, f1Idx, f2MaxIdx)
        ordered == swapIfDescending(f1Idx, f2Idx)
    IN  IF Len(peaks) < 2 THEN [f1 |-> 0, f2 |-> 0]
        ELSE [f1 |-> RoundDiv(ordered[1] * sampleRate * 50, Len(magnitudes)),
              f2 |-> RoundDiv(ordered[2] * sampleRate * 50, Len(magnitudes))]

\* the sample rates and spectrum lengths drawn: a spectrum too short to hold a
\* peak, and 64 bins at 8 kHz, 256 bins at 44.1 kHz and at 48 kHz
Resolutions ==
    { [sampleRate |-> 8000, length |-> 8], [sampleRate |-> 8000, length |-> 64],
      [sampleRate |-> 44100, length |-> 256], [sampleRate |-> 48000, length |-> 256] }

\* the bin nearest a frequency in hertz: bin k is at k * sampleRate / (2 * length)
Bin(hz, r) == RoundDiv(2 * hz * r.length, r.sampleRate)

\* a spectrum of r.length bins: zero, flat or strictly rising, with up to two
\* one-bin spikes of heights h1 at p1 and h2 at p2 (a height of 0 is no spike)
Spectrum(r, base, p1, h1, p2, h2) ==
    [i \in 1..r.length |->
        IF i - 1 = p2 /\ h2 > 0 THEN h2
        ELSE IF i - 1 = p1 /\ h1 > 0 THEN h1
        ELSE IF base = "zero" THEN 0
        ELSE IF base = "flat" THEN 500
        ELSE i - 1]

SpikeBins(r) == {4, Bin(800, r), Bin(1200, r), Bin(1500, r), Bin(2500, r)}

SpikeHeights == {0, 1000, 2000}

InitFormant ==
    /\ pc = "fmt_start"
    /\ \E r \in Resolutions, base \in {"zero", "flat", "rising"} :
       \E p1 \in SpikeBins(r), p2 \in SpikeBins(r), h1 \in SpikeHeights, h2 \in SpikeHeights :
          args = [sampleRate |-> r.sampleRate,
                  magnitudes |-> Spectrum(r, base, p1, h1, p2, h2)]
    /\ ret = [peaks |-> <<>>, formants |-> [f1 |-> 0, f2 |-> 0], result |-> noResult]

ExtractFormants ==
    /\ pc = "fmt_start"
    /\ ret' = [ret EXCEPT !.peaks = findPeaks(searchBand(args.magnitudes, args.sampleRate), 3),
                          !.formants = extractFormants(args.magnitudes, args.sampleRate)]
    /\ pc' = "fmt_extracted"
    /\ UNCHANGED args

ClassifyFormants ==
    /\ pc = "fmt_extracted"
    /\ ret' = [ret EXCEPT !.result = classifyVowel(ret.formants)]
    /\ pc' = "fmt_classified"
    /\ UNCHANGED args

NextFormant == ExtractFormants \/ ClassifyFormants

SpecFormant == InitFormant /\ [][NextFormant]_vars

\* C16: an all-zero magnitude spectrum is classified as vowel = null, for every
\* spectrum length and sample rate.
C16_SilenceIsNull ==
    (pc = "fmt_classified" /\ \A i \in 1..Len(args.magnitudes) : args.magnitudes[i] = 0) =>
        ret.result.vowel = null

\* C17: a spectrum that is zero except for two spikes of different heights at
\* the bins nearest 800 Hz and 1200 Hz (which lie more than three bins apart,
\* at least three bins from either end of the searched band) is classified as
\* A with confidence above 0.8, whichever spike is the stronger.
C17_TwoPeaksGiveA ==
    LET r == [sampleRate |-> args.sampleRate, length |-> Len(args.magnitudes)]
        b8 == Bin(800, r)
        b12 == Bin(1200, r)
        band == Len(searchBand(args.magnitudes, args.sampleRate))
    IN  ( /\ pc = "fmt_classified"
          /\ b12 - b8 > 3 /\ b8 >= 3 /\ b12 < band - 3
          /\ At(args.magnitudes, b8) > 0 /\ At(args.magnitudes, b12) > 0
          /\ At(args.magnitudes, b8) # At(args.magnitudes, b12)
          /\ \A k \in 0..(Len(args.magnitudes) - 1) :
                k \notin {b8, b12} => At(args.magnitudes, k) = 0 ) =>
            /\ ret.result.vowel = "A"
            /\ ret.result.confidence > 800

\* C18 (as stated): every formant estimate has f1 < f2 strictly, also when
\* fewer than two peaks are found.
C18_F1BelowF2 ==
    pc \in {"fmt_extracted", "fmt_classified"} => ret.formants.f1 < ret.formants.f2

\* C18 (amended): when at least two peaks are found in the searched band the
\* estimate has f1 < f2 strictly, also when the peaks were picked in descending
\* order of frequency (they are swapped); when fewer than two peaks are found
\* the estimate is f1 = f2 = 0.
C18_F1BelowF2OrNone ==
    pc \in {"fmt_extracted", "fmt_classified"} =>
        IF Len(ret.peaks) < 2 THEN ret.formants.f1 = 0 /\ ret.formants.f2 = 0
        ELSE ret.formants.f1 < ret.formants.f2

C18_Witness ==
    /\ pc = "fmt_extracted"
    /\ Len(ret.peaks) = 2
    /\ At(args.magnitudes, ret.peaks[2]) > At(args.magnitudes, ret.peaks[1])
    /\ ret.peaks[1] >= Floor(1800 * Len(args.magnitudes), args.sampleRate)
    /\ ret.formants.f1 = RoundDiv(ret.peaks[1] * args.sampleRate * 50, Len(args.magnitudes))
    /\ ret.formants.f2 = RoundDiv(ret.peaks[2] * args.sampleRate * 50, Len(args.magnitudes))
    /\ ret.formants.f1 < ret.formants.f2

(***************************************************************************)
(* Spectral analysis: computeFFT, computeModFFT and computeSTFT.  Samples  *)
(* and magnitudes are in thousandths, frequencies and times are exact      *)
(* rationals <<n, d>>.                                                     *)
(***************************************************************************)

\* the longest signal drawn for computeFFT and computeModFFT
MaxSamples == 5

\* sin of a / b of a turn (b > 0) in thousandths, by Bhaskara's approximation
\* sin(p * pi) = 16 p (1 - p) / (5 - 4 p (1 - p)) for 0 <= p <= 1, which is
\* within 0.002 of the sine and exact at the multiples of a twelfth of a turn
SinTurn(a, b) ==
    LET h == (2 * a) % (2 * b)
        q == IF h <= b THEN h * (b - h) ELSE (h - b) * (2 * b - h)
        v == RoundDiv(16000 * q, 5 * b * b - 4 * q)
    IN  IF h <= b THEN v ELSE -v

CosTurn(a, b) == SinTurn(4 * a + b, 4 * b)

\* signal.map(x => (isNaN(x) ? 0 : x))
clean(signal) == [i \in 1..Len(signal) |-> IF signal[i] = NaN THEN 0 ELSE signal[i]]

\* let N = 1; while (N < n) N *= 2
RECURSIVE padLength(_, _)
padLength(N, n) == IF N < n THEN padLength(2 * N, n) ELSE N

computeFFT(signal, samplingRate) ==
    LET c == clean(signal)
        N == padLength(1, Len(c))
        padded == c \o [i \in 1..(N - Len(c)) |-> 0]
        halfN == N \div 2
        magnitude(k) ==
            LET re == SumSeq([n \in 1..N |-> Mul(padded[n], CosTurn(k * (n - 1), N))])
                im == -SumSeq([n \in 1..N |-> Mul(padded[n], SinTurn(k * (n - 1), N))])
            IN  RoundDiv(Sqrt(re * re + im * im), N)
    IN  [frequencies |-> [k \in 1..halfN |-> <<(k - 1) * samplingRate, N>>],
         magnitudes |-> [k \in 1..halfN |-> magnitude(k - 1)]]

\* while (m >= 1 && j >= m) { j -= m; m >>= 1 }; j += m
RECURSIVE reverseStep(_, _)
reverseStep(j, m) == IF m >= 1 /\ j >= m THEN reverseStep(j - m, m \div 2) ELSE j + m

\* x with the entries of (0-based) indices a and b exchanged
swapEntries(x, a, b) ==
    [x EXCEPT !.re = [@ EXCEPT ![a + 1] = x.re[b + 1], ![b + 1] = x.re[a + 1]],
              !.im = [@ EXCEPT ![a + 1] = x.im[b + 1], ![b + 1] = x.im[a + 1]]]

\* the bit-reversal permutation of fft_radix2 from index i on
RECURSIVE bitReversal(_, _, _)
bitReversal(x, i, j) ==
    IF i >= Len(x.re) THEN x
    ELSE bitReversal(IF i < j THEN swapEntries(x, i, j) ELSE x, i + 1,
                     reverseStep(j, Len(x.re) \div 2))

\* the innermost loop of fft_radix2: the butterflies j, j + 1, ... of the block at i
RECURSIVE butterflies(_, _, _, _, _)
butterflies(x, len, i, j, w) ==
    IF 2 * j >= len THEN x
    ELSE LET a == i + j + 1
             b == i + j + (len \div 2) + 1
             wlen == <<CosTurn(1, len), -SinTurn(1, len)>>
             v_re == Mul(x.re[b], w[1]) - Mul(x.im[b], w[2])
             v_im == Mul(x.re[b], w[2]) + Mul(x.im[b], w[1])
             x1 == [x EXCEPT !.re = [@ EXCEPT ![a] = x.re[a] + v_re, ![b] = x.re[a] - v_re],
                             !.im = [@ EXCEPT ![a] = x.im[a] + v_im, ![b] = x.im[a] - v_im]]
         IN  butterflies(x1, len, i, j + 1,
                         <<Mul(w[1], wlen[1]) - Mul(w[2], wlen[2]),
                           Mul(w[1], wlen[2]) + Mul(w[2], wlen[1])>>)

\* for (let i = 0; i < n; i += len)
RECURSIVE blocks(_, _, _)
blocks(x, len, i) ==
    IF i >= Len(x.re) THEN x
    ELSE blocks(butterflies(x, len, i, 0, <<1000, 0>>), len, i + len)

\* for (let len = 2; len <= n; len <<= 1)
RECURSIVE stages(_, _)
stages(x, len) == IF len > Len(x.re) THEN x ELSE stages(blocks(x, len, 0), 2 * len)

\* fft_radix2 on x = [re, im, thrown]: in place, or throwing when the length is
\* not a power of two
fft_radix2(x) ==
    IF padLength(1, Len(x.re)) # Len(x.re) THEN [x EXCEPT !.thrown = TRUE]
    ELSE stages(bitReversal(x, 0, 0), 2)

computeModFFT(signal, Fs, maxPoints) ==
    LET nRaw == Len(signal)
        nProc == Min(nRaw, maxPoints)
        N == padLength(1, nProc)
        x == fft_radix2([re |-> [i \in 1..N |-> IF i <= nProc /\ signal[i] # NaN
                                               THEN signal[i] ELSE 0],
                         im |-> [i \in 1..N |-> 0], thrown |-> FALSE])
        \* halfN = N / 2: the loop runs over the k with k < N / 2
        bins == Cardinality({k \in 0..N : 2 * k < N})
    IN  [thrown |-> x.thrown,
         frequencies |-> IF x.thrown THEN <<>> ELSE [k \in 1..bins |-> <<(k - 1) * Fs, N>>],
         magnitudes |-> IF x.thrown THEN <<>>
                        ELSE [k \in 1..bins |->
                                 RoundDiv(Sqrt(x.re[k] * x.re[k] + x.im[k] * x.im[k]), N)]]

\* the ceiling on the number of windows of computeSTFT
maxWindows == 80

\* the number of windows without the ceiling of maxWindows
numWindowsUncapped(length, windowSize, hopSize) ==
    Max(0, Floor(length - windowSize, hopSize) + 1)

\* Math.min(maxWindows, Math.max(0, Math.floor((clean.length - windowSize) / hopSize) + 1))
numWindows(length, windowSize, hopSize) ==
    Min(maxWindows, Max(0, Floor(length - windowSize, hopSize) + 1))

\* the Hann weight 0.5 * (1 - cos(2 pi n / (windowSize - 1)))
hann(n, windowSize) == RoundDiv(1000 - CosTurn(n, windowSize - 1), 2)

\* Array.prototype.slice(from, to) on 0-based indices
slice(arr, from, to) == SubSeq(arr, Min(from, Len(arr)) + 1, Min(to, Len(arr)))

\* one window of computeSTFT: its time, the segment it reads (first index and
\* samples) and its power values
stftWindow(c, samplingRate, windowSize, hopSize, w) ==
    LET start == w * hopSize
        seg == slice(c, start, start + windowSize)
        windowed == [n \in 1..Len(seg) |-> Mul(seg[n], hann(n - 1, windowSize))]
        freqBins == windowSize \div 2
        power(k) ==
            LET re == SumSeq([n \in 1..windowSize |->
                                 Mul(windowed[n], CosTurn(k * (n - 1), windowSize))])
                im == -SumSeq([n \in 1..windowSize |->
                                  Mul(windowed[n], SinTurn(k * (n - 1), windowSize))])
            IN  RoundDiv(re * re + im * im, 1000 * windowSize * windowSize)
    IN  [time |-> <<start, samplingRate>>, start |-> start, seg |-> seg,
         mags |-> [k \in 1..freqBins |-> power(k - 1)]]

\* computeSTFT; segments lists, next to the value returned, the segment each
\* window read
computeSTFT(signal, samplingRate, windowSize, hopSize) ==
    LET c == clean(signal)
        n == numWindows(Len(c), windowSize, hopSize)
        freqBins == windowSize \div 2
        windows == [w \in 1..n |-> stftWindow(c, samplingRate, windowSize, hopSize, w - 1)]
    IN  IF n <= 0 THEN [times |-> <<>>, frequencies |-> <<>>, power |-> <<>>, segments |-> <<>>]
        ELSE [times |-> [w \in 1..n |-> windows[w].time],
              frequencies |-> [k \in 1..freqBins |-> <<(k - 1) * samplingRate, windowSize>>],
              power |-> [w \in 1..n |-> windows[w].mags],
              segments |-> [w \in 1..n |-> [start |-> windows[w].start, seg |-> windows[w].seg]]]

InitFFT ==
    /\ pc = "fft_start"
    /\ args \in [signal : UNION {[1..n -> {0, 1000, -500, NaN}] : n \in 0..MaxSamples},
                 samplingRate : {8}, maxPoints : {2, 3, 8}]
    /\ ret = [fft |-> <<>>, modfft |-> <<>>, stft |-> <<>>, windowSize |-> 0]

ComputeFFT ==
    /\ pc = "fft_start"
    /\ ret' = [ret EXCEPT !.fft = computeFFT(args.signal, args.samplingRate)]
    /\ pc' = "fft_done"
    /\ UNCHANGED args

ComputeModFFT ==
    /\ pc = "fft_start"
    /\ ret' = [ret EXCEPT !.modfft = computeModFFT(args.signal, args.samplingRate, args.maxPoints)]
    /\ pc' = "modfft_done"
    /\ UNCHANGED args

\* computeSTFT on the same samples, with a hop of one sample
ComputeSpectrogram ==
    /\ pc = "fft_start"
    /\ \E windowSize \in {2, 3} :
          ret' = [ret EXCEPT !.windowSize = windowSize,
                             !.stft = computeSTFT(args.signal, args.samplingRate, windowSize, 1)]
    /\ pc' = "spectrogram_done"
    /\ UNCHANGED args

NextFFT == ComputeFFT \/ ComputeModFFT \/ ComputeSpectrogram

SpecFFT == InitFFT /\ [][NextFFT]_vars

\* the smallest power of two that is at least n
PowerOfTwoAbove(n) ==
    CHOOSE N \in {Pow(2, e) : e \in 0..(n + 1)} : N >= n /\ (N = 1 \/ N \div 2 < n)

\* frequencies and magnitudes have floor(N / 2) entries each, frequencies[k] is
\* k * Fs / N, and the frequencies are non-negative and strictly increasing
SingleSided(out, N, Fs) ==
    /\ Len(out.frequencies) = N \div 2
    /\ Len(out.magnitudes) = N \div 2
    /\ \A k \in 1..Len(out.frequencies) :
          /\ out.frequencies[k] = <<(k - 1) * Fs, N>>
          /\ out.frequencies[k][1] >= 0
          /\ k > 1 => out.frequencies[k - 1][1] * out.frequencies[k][2]
                          < out.frequencies[k][1] * out.frequencies[k - 1][2]

\* C19: computeFFT and computeModFFT return frequencies and magnitudes of
\* length floor(N / 2) each, N being the smallest power of two at least the
\* number of processed samples (the input length, capped at maxPoints for
\* computeModFFT), with frequencies[k] = k * Fs / N strictly increasing from 0;
\* the samples beyond the cap do not change the result of computeModFFT.
C19_SpectrumLength ==
    /\ pc = "fft_done" =>
          SingleSided(ret.fft, PowerOfTwoAbove(Len(args.signal)), args.samplingRate)
    /\ pc = "modfft_done" =>
          LET nProc == Min(Len(args.signal), args.maxPoints)
          IN  /\ SingleSided(ret.modfft, PowerOfTwoAbove(nProc), args.samplingRate)
              /\ ret.modfft = computeModFFT(SubSeq(args.signal, 1, nProc),
                                            args.samplingRate, args.maxPoints)

(***************************************************************************)
(* Short-time Fourier transform                                            *)
(***************************************************************************)

\* the longest signal drawn for computeSTFT
MaxSignal == 84

\* the largest window size and hop size drawn for computeSTFT
MaxWindowSize == 4

MaxHop == 3

\* the signals given to computeSTFT: silence, a sawtooth, and a sawtooth with
\* dropped samples
StftSignal(length, shape) ==
    [i \in 1..length |->
        IF shape = "silence" THEN 0
        ELSE IF shape = "dropped" /\ i % 5 = 2 THEN NaN
        ELSE ((i - 1) % 4) * 250 - 250]

InitSTFT ==
    /\ pc = "stft_start"
    /\ \E length \in 0..MaxSignal, shape \in {"silence", "sawtooth", "dropped"} :
          args \in [signal : {StftSignal(length, shape)}, samplingRate : {1000},
                    windowSize : 2..MaxWindowSize, hopSize : 1..MaxHop]
    /\ ret = [times |-> <<>>, frequencies |-> <<>>, power |-> <<>>, segments |-> <<>>]

ComputeSTFT ==
    /\ pc = "stft_start"
    /\ ret' = computeSTFT(args.signal, args.samplingRate, args.windowSize, args.hopSize)
    /\ pc' = "stft_done"
    /\ UNCHANGED args

NextSTFT == ComputeSTFT

SpecSTFT == InitSTFT /\ [][NextSTFT]_vars

\* C20: computeSTFT emits min(80, max(0, floor((L - W) / H) + 1)) frames, at
\* most 80 and none when L < W; frame w has timestamp w * H / Fs and reads the
\* W samples w * H .. w * H + W - 1, all inside the signal; every frame has
\* floor(W / 2) power values, on the one frequency sequence k * Fs / W.
C20_FrameCount ==
    pc = "stft_done" =>
        LET L == Len(args.signal)
            W == args.windowSize
            H == args.hopSize
            frames == Min(80, Max(0, Floor(L - W, H) + 1))
        IN  /\ Len(ret.times) = frames
            /\ Len(ret.power) = frames
            /\ frames <= 80
            /\ L < W => frames = 0
            /\ \A w \in 1..Len(ret.times) :
                  /\ ret.times[w] = <<(w - 1) * H, args.samplingRate>>
                  /\ ret.segments[w].start = (w - 1) * H
                  /\ ret.segments[w].start + W - 1 <= L - 1
                  /\ ret.segments[w].seg =
                         [n \in 1..W |-> clean(args.signal)[(w - 1) * H + n]]
                  /\ Len(ret.power[w]) = W \div 2
            /\ frames > 0 =>
                  /\ Len(ret.frequencies) = W \div 2
                  /\ \A k \in 1..Len(ret.frequencies) :
                        ret.frequencies[k] = <<(k - 1) * args.samplingRate, W>>

C20_Witness ==
    /\ pc = "stft_done"
    /\ Floor(Len(args.signal) - args.windowSize, args.hopSize) + 1 > 80
    /\ Len(ret.times) = 80
    /\ args.windowSize = 3
    /\ Len(ret.power[80]) = 1
    /\ \E w \in 1..80 : ret.power[w][1] > 0

\* the signal with its NaN samples removed
WithoutNaN(signal) ==
    LET kept(x) == x # NaN
    IN  SelectSeq(signal, kept)

\* C21: NaN samples are filtered out, not zero-filled, before a spectrum is
\* computed: computeFFT, computeModFFT and computeSTFT give on a signal the
\* result they give on that signal with its NaN samples removed, and no NaN
\* reaches the output.
C21_NaNFilteredOut ==
    /\ pc = "fft_done" =>
          /\ ret.fft = computeFFT(WithoutNaN(args.signal), args.samplingRate)
          /\ \A k \in 1..Len(ret.fft.magnitudes) : ret.fft.magnitudes[k] # NaN
    /\ pc = "modfft_done" =>
          /\ ret.modfft = computeModFFT(WithoutNaN(args.signal), args.samplingRate,
                                        args.maxPoints)
          /\ \A k \in 1..Len(ret.modfft.magnitudes) : ret.modfft.magnitudes[k] # NaN
    /\ pc = "spectrogram_done" =>
          /\ LET filtered == computeSTFT(WithoutNaN(args.signal), args.samplingRate,
                                         ret.windowSize, 1)
             IN  /\ ret.stft.times = filtered.times
                 /\ ret.stft.frequencies = filtered.frequencies
                 /\ ret.stft.power = filtered.power
          /\ \A w \in 1..Len(ret.stft.power) : \A k \in 1..Len(ret.stft.power[w]) :
                ret.stft.power[w][k] # NaN

(***************************************************************************)
(* Frequency sweeps.  The frequencies of a sweep are in ten-thousandths of *)
(* a hertz, amplitudes in thousandths, phases in thousandths of a turn,    *)
(* times are rationals <<n, d>> and the duration is in whole seconds.      *)
(***************************************************************************)

\* the number of quarter seconds after t = 0 in the time vector of a sweep
MaxSweep == 4

\* 2 to the power x / 1000, in thousandths, linear between the whole powers
\* (the inverse of Log2Milli), x >= 0
Exp2Milli(x) ==
    LET e == x \div 1000
        f == x % 1000
    IN  Pow(2, e) * (1000 + f)

\* r = fStop / fStart: a finite quotient, or Infinity, -Infinity or NaN when
\* fStart is 0
ratioClass(fStart, fStop) ==
    IF fStart # 0 THEN "finite"
    ELSE IF fStop > 0 THEN "Infinity"
    ELSE IF fStop < 0 THEN "-Infinity"
    ELSE "NaN"

\* Math.abs(fStart - fStop) < 0.001 || r <= 1.0
degenerate(fStart, fStop) ==
    \/ Abs(fStart - fStop) < 10
    \/ ratioClass(fStart, fStop) = "-Infinity"
    \/ /\ ratioClass(fStart, fStop) = "finite"
       /\ IF fStart > 0 THEN fStop <= fStart ELSE fStop >= fStart

\* the amplitude aStart + ka * ti and the phase pStart + kp * ti at time ti
sweepAmplitude(p, ti) ==
    p.aStart + RoundDivS((p.aStop - p.aStart) * ti[1], p.duration * ti[2])

sweepPhase(p, ti) ==
    p.pStart + RoundDivS((p.pStop - p.pStart) * ti[1], p.duration * ti[2])

\* Math.sin of an angle in thousandths of a turn, read to a 250th of a turn
sweepSin(turns) == SinTurn(RoundDiv(turns, 4), 250)

\* one sample of the linear sweep: f_t = fStart + kf * ti and
\* a_t * sin(2 pi (fStart * ti + 0.5 * kf * ti * ti) + p_t)
linearSample(p, ti) ==
    LET f_t == p.fStart + RoundDivS((p.fStop - p.fStart) * ti[1], p.duration * ti[2])
        turns == RoundDivS(p.fStart * ti[1], 10 * ti[2])
                 + RoundDivS((p.fStop - p.fStart) * ti[1] * ti[1],
                             20 * p.duration * ti[2] * ti[2])
                 + sweepPhase(p, ti)
    IN  [instFreq |-> f_t, signal |-> Mul(sweepAmplitude(p, ti), sweepSin(turns))]

\* one sample of the exponential sweep: f_t = fStart * r^(ti / Ts) and
\* a_t * sin(2 pi fStart (Ts / ln r) (r^(ti / Ts) - 1) + p_t).  With
\* r = Infinity (fStart = 0) the power is 1 at ti = 0 and Infinity after it,
\* so f_t = 0 * Infinity and the phase 0 * 0 * Infinity are NaN for ti > 0
exponentialSample(p, ti) ==
    IF ratioClass(p.fStart, p.fStop) = "finite"
    THEN LET log2r == Log2Milli(Abs(p.fStop)) - Log2Milli(Abs(p.fStart))
             lnR == RoundDiv(693 * log2r, 1000)
             power == Exp2Milli(RoundDiv(log2r * ti[1], p.duration * ti[2]))
             turns == RoundDivS(p.fStart * p.duration * (power - 1000), 10 * Max(1, lnR))
                      + sweepPhase(p, ti)
         IN  [instFreq |-> RoundDiv(p.fStart * power, 1000),
              signal |-> Mul(sweepAmplitude(p, ti), sweepSin(turns))]
    ELSE IF ti[1] = 0
    THEN [instFreq |-> 0,
          signal |-> Mul(sweepAmplitude(p, ti), sweepSin(sweepPhase(p, ti)))]
    ELSE [instFreq |-> NaN, signal |-> NaN]

generateSweepSignal(params, t) ==
    LET sample(i) ==
            IF params.type = "linear" THEN linearSample(params, t[i])
            ELSE IF degenerate(params.fStart, params.fStop) THEN linearSample(params, t[i])
            ELSE exponentialSample(params, t[i])
    IN  [signal |-> [i \in 1..Len(t) |-> sample(i).signal],
         instFreq |-> [i \in 1..Len(t) |-> sample(i).instFreq]]

SweepParamsSet ==
    [fStart : {-10000, 0, 10000, 20000},
     fStop : {-10000, 0, 10000, 10005, 20000, 40000, 160000},
     aStart : {1000}, aStop : {1000, 500}, pStart : {0}, pStop : {0, 250},
     duration : {1}, type : {"linear", "logarithmic"}]

InitSweep ==
    /\ pc = "sweep_start"
    /\ \E params \in SweepParamsSet, n \in 1..(MaxSweep + 1) :
          args = [params |-> params, t |-> [i \in 1..n |-> <<i - 1, 4>>]]
    /\ ret = [signal |-> <<>>, instFreq |-> <<>>]

GenerateSweepSignal ==
    /\ pc = "sweep_start"
    /\ ret' = generateSweepSignal(args.params, args.t)
    /\ pc' = "sweep_done"
    /\ UNCHANGED args

NextSweep == GenerateSweepSignal

SpecSweep == InitSweep /\ [][NextSweep]_vars

\* C22: a logarithmic sweep whose bounds are equal to within 0.001 Hz, or
\* inverted, or give r = fStop / fStart <= 1, is exactly the linear sweep of
\* the same parameters; for every other pair of bounds, fStart = 0 included,
\* every sample is finite.
C22_LogSweepFallback ==
    (pc = "sweep_done" /\ args.params.type = "logarithmic") =>
        LET p == args.params
            fallback == \/ Abs(p.fStart - p.fStop) < 10
                        \/ p.fStart # 0 /\ p.fStop * Sign(p.fStart) <= p.fStart * Sign(p.fStart)
        IN  IF fallback
            THEN ret = generateSweepSignal([p EXCEPT !.type = "linear"], args.t)
            ELSE \A i \in 1..Len(ret.signal) : ret.signal[i] # NaN /\ ret.instFreq[i] # NaN


(***************************************************************************)
(* Constellation diagram                                                   *)
(***************************************************************************)

\* T is in milliseconds, Ac in thousandths
ConstellationParamsSet ==
    [Ac : {1000}, Fc : {1}, Fs : {4, 12}, T : {500, 1000},
     bitRate : {2, 3, 4}, bits : BitSeqs(MaxModBits), F1 : {3}, F0 : {1}]

\* the symbol rate as the fraction <<n, d>>: bitRate for PSK, bitRate / 2 for QPSK
symbolRate(p, type) == IF type = "QPSK" THEN <<p.bitRate, 2>> ELSE <<p.bitRate, 1>>

\* Math.floor(p.Fs / symRate)
samplesPerSymbol(p, type) == (p.Fs * symbolRate(p, type)[2]) \div symbolRate(p, type)[1]

\* Math.floor(bits.length / 2) symbols for QPSK, bits.length for PSK
numSymbols(p, type) == IF type = "QPSK" THEN Len(p.bits) \div 2 ELSE Len(p.bits)

\* bits[k] ?? 0
bitOrZero(bits, k) == IF k < Len(bits) THEN At(bits, k) ELSE 0

\* the label of symbol s: `${bits[b]}` for PSK, `${b0}${b1}` for QPSK
symbolLabel(p, type, s) ==
    IF type = "QPSK" THEN <<bitOrZero(p.bits, s * 2), bitOrZero(p.bits, s * 2 + 1)>>
    ELSE <<At(p.bits, s)>>

\* the correlation sums over samples start..end - 1; I and Q are held as the
\* fractions <<sum, count>>, start and end are the bounds of the inner loop
integrate(t, signal, p, start, end, label) ==
    LET count == end - start
        I == SumSeq([k \in 1..count |->
                 Mul(At(signal, start + k - 1), Cos12(Turn12(p.Fc, At(t, start + k - 1))))])
        Q == SumSeq([k \in 1..count |->
                 Mul(At(signal, start + k - 1), Sin12(Turn12(p.Fc, At(t, start + k - 1))))])
    IN  [I |-> <<I, count>>, Q |-> <<Q, count>>, label |-> label,
         start |-> start, end |-> end]

\* the loop over symbols of computeConstellation, from symbol s on
RECURSIVE pointsFrom(_, _, _, _, _, _)
pointsFrom(t, signal, p, type, s, points) ==
    LET start == s * samplesPerSymbol(p, type)
        end == Min(start + samplesPerSymbol(p, type), Len(t))
    IN  IF s >= numSymbols(p, type) \/ start >= Len(t) THEN points
        ELSE pointsFrom(t, signal, p, type, s + 1,
                 IF end - start > 0
                 THEN Append(points, integrate(t, signal, p, start, end,
                                               symbolLabel(p, type, s)))
                 ELSE points)

computeConstellation(t, signal, p, type) ==
    IF type \in {"PSK", "QPSK"} THEN pointsFrom(t, signal, p, type, 0, <<>>) ELSE <<>>

InitConstellation ==
    /\ pc = "constellation_start"
    /\ args \in [type : {"ASK", "PSK", "QPSK"}, p : ConstellationParamsSet]
    /\ ret = [t |-> <<>>, signal |-> <<>>, points |-> <<>>]

\* the time vector and the modulated signal the diagram is drawn from
ModulateCarrier ==
    /\ pc = "constellation_start"
    /\ LET t == generateModTimeVector(args.p.Fs, args.p.T)
       IN  ret' = [ret EXCEPT !.t = t, !.signal = modulate(args.type, t, args.p)]
    /\ pc' = "modulated"
    /\ UNCHANGED args

ComputeConstellation ==
    /\ pc = "modulated"
    /\ ret' = [ret EXCEPT !.points = computeConstellation(ret.t, ret.signal, args.p, args.type)]
    /\ pc' = "constellation_done"
    /\ UNCHANGED args

NextConstellation == ModulateCarrier \/ ComputeConstellation

SpecConstellation == InitConstellation /\ [][NextConstellation]_vars

\* the symbol the modulator sends at sample i (0-based): floor(t[i] * symbolRate)
SymbolOfSample(i) ==
    LET ti == At(ret.t, i)
        r == symbolRate(args.p, args.type)
    IN  (ti[1] * r[1]) \div (ti[2] * r[2])

\* the bit or bit pair the modulator uses for symbol s
BitsOfSymbol(s) ==
    IF args.type = "QPSK"
    THEN <<getBit(args.p.bits, 2 * s), getBit(args.p.bits, 2 * s + 1)>>
    ELSE <<getBit(args.p.bits, s)>>

\* C23: for PSK and QPSK computeConstellation returns one point per symbol
\* period that starts within the signal, the bits repeating when the signal
\* outlasts them, and the label of point s is the bit (pair) the modulator
\* used for symbol s.
C23_PointPerSymbol ==
    (pc = "constellation_done" /\ args.type \in {"PSK", "QPSK"} /\ Len(ret.t) > 0) =>
        LET sent == SymbolOfSample(Len(ret.t) - 1) + 1
        IN  /\ Len(ret.points) = sent
            /\ \A s \in 0..(Len(ret.points) - 1) :
                  At(ret.points, s).label = BitsOfSymbol(s)

\* C24: every sample inside the integration window of the point of symbol s
\* is a sample the modulator generated for symbol s, also when Fs / symbolRate
\* is not an integer.
C24_WindowIsOneSymbol ==
    pc = "constellation_done" =>
        \A s \in 0..(Len(ret.points) - 1) :
            \A i \in At(ret.points, s).start..(At(ret.points, s).end - 1) :
                SymbolOfSample(i) = s

(***************************************************************************)
(* Envelope detection                                                      *)
(***************************************************************************)

\* the longest signal drawn for envelopeDetect
MaxEnvelope == 12

\* signals of samples 1.0 and -0.5 in which at most one sample, the one at
\* index dropped - 1, is a NaN dropped-sample marker (dropped = 0: none)
EnvelopeSignal(samples, dropped) ==
    [j \in 1..Len(samples) |-> IF j = dropped THEN NaN ELSE samples[j]]

InitEnvelope ==
    /\ pc = "envelope_start"
    /\ \E n \in 0..MaxEnvelope : \E samples \in [1..n -> {1000, -500}] : \E dropped \in 0..n :
          args = [signal |-> EnvelopeSignal(samples, dropped)]
    /\ ret = <<>>

\* demodulateAM: the envelope of the signal
DemodulateAM ==
    /\ pc = "envelope_start"
    /\ ret' = envelopeDetect(args.signal)
    /\ pc' = "envelope_done"
    /\ UNCHANGED args

NextEnvelope == DemodulateAM

SpecEnvelope == InitEnvelope /\ [][NextEnvelope]_vars

\* the mean of |signal[j]| over j = max(0, i - 9) .. i (0-based), as the
\* fraction <<sum, count>>; the sum is NaN when a sample of the window is NaN
WindowMean(signal, i) ==
    LET from == Max(0, i - 9)
        window == [k \in 1..(i - from + 1) |-> At(signal, from + k - 1)]
    IN  IF \E k \in 1..Len(window) : window[k] = NaN
        THEN <<NaN, Len(window)>>
        ELSE <<SumSeq([k \in 1..Len(window) |-> Abs(window[k])]), Len(window)>>

\* C25: the output of envelopeDetect has the length of the input and
\* result[i] is the mean of |signal[j]| over the last min(i + 1, 10) samples.
C25_EnvelopeIsWindowMean ==
    pc = "envelope_done" =>
        /\ Len(ret) = Len(args.signal)
        /\ \A i \in 0..(Len(ret) - 1) : At(ret, i) = WindowMean(args.signal, i)

(***************************************************************************)
(* Signal statistics and modulation features                               *)
(***************************************************************************)

\* the longest signal drawn for computeStats and computeModFeatures
MaxStats == 3

\* arr[i] ?? 0
atOrZero(arr, i) == IF i < Len(arr) THEN At(arr, i) ELSE 0

\* signal.filter(x => !isNaN(x))
filterNaN(signal) == LET kept(x) == x # NaN IN SelectSeq(signal, kept)

\* the sum of the squares of the samples
sumSquares(arr) == SumSeq([k \in 1..Len(arr) |-> arr[k] * arr[k]])

\* clean.map((x, i) => x - (reference[i] ?? 0))
noiseOf(cleaned, reference) ==
    [k \in 1..Len(cleaned) |-> cleaned[k] - atOrZero(reference, k - 1)]

\* the largest and the smallest sample
maxOf(arr) == CHOOSE x \in {arr[k] : k \in 1..Len(arr)} : \A k \in 1..Len(arr) : arr[k] <= x

minOf(arr) == CHOOSE x \in {arr[k] : k \in 1..Len(arr)} : \A k \in 1..Len(arr) : arr[k] >= x

\* an snr of null
noSnr == [null |-> TRUE, sigPower |-> <<0, 1>>, noisePower |-> <<0, 1>>]

\* 10 * log10(sigPower / noisePower) when noisePower > 0, held as the two
\* powers, each the fraction <<sum of squares, count>>
snrOf(reference, noise) ==
    IF Len(noise) > 0 /\ sumSquares(noise) > 0
    THEN [null |-> FALSE, sigPower |-> <<sumSquares(reference), Len(reference)>>,
          noisePower |-> <<sumSquares(noise), Len(noise)>>]
    ELSE noSnr

\* computeStats: mean, variance and rms squared are the fractions <<n, d>>;
\* stdDev, skewness and kurtosis are functions of these and are not carried.
\* original.given tells whether the optional argument was passed; noise is
\* the array of noise terms
computeStats(signal, original) ==
    LET cleaned == filterNaN(signal)
        N == Len(cleaned)
        sum == SumSeq(cleaned)
        origClean == filterNaN(original.samples)
        noise == IF original.given THEN noiseOf(cleaned, origClean) ELSE <<>>
    IN  IF N = 0
        THEN [mean |-> <<0, 1>>, variance |-> <<0, 1>>, rmsSquared |-> <<0, 1>>, min |-> 0,
              max |-> 0, peakToPeak |-> 0, snr |-> noSnr, noise |-> <<>>]
        ELSE [mean |-> <<sum, N>>,
              variance |-> <<N * sumSquares(cleaned) - sum * sum, N * N>>,
              rmsSquared |-> <<sumSquares(cleaned), N>>,
              min |-> minOf(cleaned), max |-> maxOf(cleaned),
              peakToPeak |-> maxOf(cleaned) - minOf(cleaned),
              snr |-> IF original.given THEN snrOf(origClean, noise) ELSE noSnr,
              noise |-> noise]

\* the 3 dB bandwidth, as [null, value]: the span of the frequencies whose
\* magnitude is at least maxMag / sqrt(2), that is 2 * magnitude^2 >= maxMag^2
bandwidthOf(frequencies, magnitudes) ==
    IF Len(magnitudes) = 0 \/ Len(frequencies) = 0 THEN [null |-> TRUE, value |-> 0]
    ELSE LET maxMag == maxOf(magnitudes)
             above(i) == /\ i < Len(magnitudes)
                         /\ 2 * At(magnitudes, i) * At(magnitudes, i) >= maxMag * maxMag
             passband == {i \in 0..(Len(frequencies) - 1) : above(i)}
             first == CHOOSE i \in passband : \A j \in passband : i <= j
             last == CHOOSE i \in passband : \A j \in passband : i >= j
         IN  IF Cardinality(passband) >= 2
             THEN [null |-> FALSE, value |-> At(frequencies, last) - At(frequencies, first)]
             ELSE [null |-> TRUE, value |-> 0]

computeModFeatures(signal, originalSignal, frequencies, magnitudes) ==
    LET cleaned == filterNaN(signal)
        power == IF Len(cleaned) > 0 THEN <<sumSquares(cleaned), Len(cleaned)>> ELSE <<0, 1>>
        compared == originalSignal.given /\ Len(originalSignal.samples) > 0
        noise == IF compared THEN noiseOf(cleaned, originalSignal.samples) ELSE <<>>
    IN  [bandwidth |-> bandwidthOf(frequencies, magnitudes),
         power |-> power,
         snr |-> IF compared THEN snrOf(originalSignal.samples, noise) ELSE noSnr,
         noise |-> noise]

\* what the faults make of a reference sample: unchanged, offset by 0.1, or
\* dropped (NaN)
Faulted(original, fault) ==
    [k \in 1..Len(original) |->
        CASE fault[k] = "kept" -> original[k]
          [] fault[k] = "noisy" -> original[k] + 100
          [] OTHER -> NaN]

InitStats ==
    /\ pc = "stats_start"
    /\ \E n \in 0..MaxStats :
       \E original \in [1..n -> {1000, -500, 250}] :
       \E fault \in [1..n -> {"kept", "noisy", "dropped"}] :
       \E withReference \in BOOLEAN :
       \E magnitudes \in {<<>>, <<1000, 800, 100>>, <<100, 1000, 200>>} :
          args = [signal |-> Faulted(original, fault),
                  original |-> [given |-> withReference,
                                samples |-> IF withReference THEN original ELSE <<>>],
                  frequencies |-> [k \in 1..Len(magnitudes) |-> k - 1],
                  magnitudes |-> magnitudes]
    /\ ret = <<>>

ComputeStats ==
    /\ pc = "stats_start"
    /\ ret' = computeStats(args.signal, args.original)
    /\ pc' = "stats_done"
    /\ UNCHANGED args

ComputeModFeatures ==
    /\ pc = "stats_start"
    /\ ret' = computeModFeatures(args.signal, args.original, args.frequencies, args.magnitudes)
    /\ pc' = "features_done"
    /\ UNCHANGED args

NextStats == ComputeStats \/ ComputeModFeatures

SpecStats == InitStats /\ [][NextStats]_vars

\* the indexes (0-based) of the samples that survive the NaN filter, ascending
RECURSIVE Survivors(_, _)
Survivors(signal, i) ==
    IF i >= Len(signal) THEN <<>>
    ELSE (IF At(signal, i) # NaN THEN <<i>> ELSE <<>>) \o Survivors(signal, i + 1)

\* C28: when SNR is computed against a reference, the noise term of each
\* surviving sample is its difference from the reference sample at the same
\* original index, also when earlier samples were dropped as NaN.
C28_NoiseAtOriginalIndex ==
    (pc \in {"stats_done", "features_done"} /\ args.original.given) =>
        LET kept == Survivors(args.signal, 0)
        IN  /\ Len(ret.noise) = Len(kept)
            /\ \A k \in 1..Len(kept) :
                  ret.noise[k] = At(args.signal, kept[k]) - At(args.original.samples, kept[k])

(***************************************************************************)
(* useMicrophone: start() and stop() around the permission request         *)
(***************************************************************************)

\* the largest number of start() calls made
MaxStarts == 3

\* ret holds the hook's state and refs: status, the four refs (0 is null; the
\* objects created by the k-th start() call carry the number k), the streams
\* whose tracks run and the audio contexts not closed.  args holds the calls:
\* the number of start() calls made, those waiting in getUserMedia, and
\* whether stop() has been called with no start() call after it.
InitMic ==
    /\ pc = "mounted"
    /\ args = [starts |-> 0, awaiting |-> {}, stopCalled |-> FALSE]
    /\ ret = [status |-> "idle", audioCtxRef |-> 0, analyserRef |-> 0, streamRef |-> 0,
              sourceRef |-> 0, streams |-> {}, contexts |-> {}]

\* stop(): the tracks of streamRef stopped, audioCtxRef closed, the refs
\* nulled, the status 'stopped'
stopping(mic) ==
    [mic EXCEPT !.streams = @ \ {mic.streamRef},
                !.contexts = @ \ {mic.audioCtxRef},
                !.audioCtxRef = 0, !.analyserRef = 0, !.streamRef = 0, !.sourceRef = 0,
                !.status = "stopped"]

\* the user's stop()
Stop ==
    /\ pc = "mounted"
    /\ ret' = stopping(ret)
    /\ args' = [args EXCEPT !.stopCalled = TRUE]
    /\ UNCHANGED pc

\* start() up to its await: stop(), the status 'requesting', and the request
\* for the microphone left pending
Start ==
    /\ pc = "mounted"
    /\ args.starts < MaxStarts
    /\ ret' = [stopping(ret) EXCEPT !.status = "requesting"]
    /\ args' = [args EXCEPT !.starts = @ + 1, !.awaiting = @ \cup {args.starts + 1},
                            !.stopCalled = FALSE]
    /\ UNCHANGED pc

\* getUserMedia resolves for call k: start() goes on after its await with a
\* new stream and a new AudioContext, stores them in the refs and sets the
\* status 'live' (a state update after the unmount has no effect)
Granted ==
    /\ \E k \in args.awaiting :
          /\ ret' = [ret EXCEPT !.streams = @ \cup {k}, !.contexts = @ \cup {k},
                                !.audioCtxRef = k, !.analyserRef = k, !.streamRef = k,
                                !.sourceRef = k,
                                !.status = IF pc = "mounted" THEN "live" ELSE @]
          /\ args' = [args EXCEPT !.awaiting = @ \ {k}]
    /\ UNCHANGED pc

\* getUserMedia rejects for call k: the catch block sets the status 'error'
Denied ==
    /\ \E k \in args.awaiting :
          /\ ret' = [ret EXCEPT !.status = IF pc = "mounted" THEN "error" ELSE @]
          /\ args' = [args EXCEPT !.awaiting = @ \ {k}]
    /\ UNCHANGED pc

\* the cleanup of the effect on unmount: the tracks stopped, the context closed
Unmount ==
    /\ pc = "mounted"
    /\ ret' = [ret EXCEPT !.streams = @ \ {ret.streamRef}, !.contexts = @ \ {ret.audioCtxRef}]
    /\ pc' = "unmounted"
    /\ UNCHANGED args

NextMic == Start \/ Stop \/ Granted \/ Denied \/ Unmount

SpecMic == InitMic /\ [][NextMic]_vars

\* C30: once stop() has been called, and until start() is called again, the
\* status is not 'live' and no media stream or audio context is held; and
\* overlapping start() calls never leave more than one stream open.
C30_StopIsFinal ==
    /\ args.stopCalled =>
          /\ ret.status # "live"
          /\ ret.streams = {} /\ ret.contexts = {}
          /\ ret.streamRef = 0 /\ ret.audioCtxRef = 0
    /\ Cardinality(ret.streams) <= 1

====
